---------------------------- MODULE Spec2Model ----------------------------
(***************************************************************************)
(* The eligibility-and-composition engine of the academic jury calendar    *)
(* (jury-utils: daysBetween, isProfessorAvailable,                         *)
(* calculateConsecutiveParticipations, getAvailableProfessors,             *)
(* sortProfessors, createJuryComposition,                                  *)
(* getProfessorParticipationHistory, calculateProfessorWorkload), modelled *)
(* from src/src/app/(dashboard)/layout.tsx.                                *)
(*                                                                         *)
(* Values.  A nullable field (string | null, number | null) is a sequence  *)
(* of length at most one: Null is << >> and a present value v is <<v>>.    *)
(* A date string is a TLA+ string; Date_getTime parses it.  The titles     *)
(* 'професор' and 'доцент' are written "professor" and "docent".  A        *)
(* template literal is the sequence of its pieces, numbers rendered by     *)
(* ToString.  Time values are in seconds, not milliseconds: a date-only    *)
(* ISO string parses to UTC midnight, a whole number of seconds, and epoch *)
(* milliseconds do not fit the model checker's integers.  A quotient that  *)
(* need not be whole is the pair <<numerator, denominator>>.               *)
(*                                                                         *)
(* Frame.  Array.prototype.sort is the one operation of the code that      *)
(* changes an array in place.  Each action that models a call gives the    *)
(* caller's lists their value after the call through the ProceduresAfter  *)
(* operators and ProfessorsAfterSort, which say on which array the sort of *)
(* the call works.                                                         *)
(***************************************************************************)
EXTENDS Integers, Sequences, FiniteSets, TLC

VARIABLES
    professors,      \* Professor[]: the professor list the caller holds
    procedures,      \* Procedure[]: the procedure list the caller holds
    targetDate,      \* the date the caller asks about
    requirements,    \* JuryRequirements the caller passes
    homeUniversity,  \* the home university the caller passes
    availability,    \* what isProfessorAvailable returned last (Null before)
    consecutive,     \* what calculateConsecutiveParticipations returned last
    composition,     \* what createJuryComposition returned last (Null before)
    days,            \* what daysBetween returned last, with its two arguments
    history,         \* what getProfessorParticipationHistory returned last
    workload,        \* what calculateProfessorWorkload returned last
    sortedList,      \* what sortProfessors returned last, with its arguments
    available,       \* what getAvailableProfessors returned last, with its filter
    parsed,          \* what parseProfessorsCsv / parseProceduresCsv returned last
    loader,          \* the fields of the JuryDataLoader
    professorsResult, \* what the last professor load of the loader returned
    proceduresResult, \* what the last procedure load of the loader returned
    hook,            \* the state cells of useJuryData
    pending,         \* the loads started through the hook and not completed
    events           \* the events JuryCalendar computed last (Null before)

\* The state outside the engine: the parsers' caller, the loader, the hook
\* and the calendar.
collaborators == <<parsed, loader, professorsResult, proceduresResult, hook,
                   pending, events>>

vars == <<professors, procedures, targetDate, requirements, homeUniversity,
          availability, consecutive, composition, days, history, workload,
          sortedList, available, collaborators>>

----------------------------------------------------------------------------
(* Values of the language *)

Null == << >>

Some(v) == <<v>>

\* JavaScript truthiness of a string | null value: null and '' are falsy.
Truthy(v) == v # Null /\ v # Some("")

\* NaN, the result of parsing an invalid date.  Every number it stands next
\* to in the model (a time, a day count) is non-negative.
NaN == -1

isNaN(x) == x = NaN

\* a < b, a > b, a >= b of numbers: false as soon as one side is NaN.
NumLT(a, b) == ~isNaN(a) /\ ~isNaN(b) /\ a < b

NumGT(a, b) == ~isNaN(a) /\ ~isNaN(b) /\ a > b

NumGE(a, b) == ~isNaN(a) /\ ~isNaN(b) /\ a >= b

\* AbsDiff without Math.abs: b - a.
AbsDiffSigned(a, b) == IF isNaN(a) \/ isNaN(b) THEN NaN ELSE b - a

\* Math.abs(b - a)
AbsDiff(a, b) == IF isNaN(a) \/ isNaN(b) THEN NaN
                 ELSE IF b >= a THEN b - a ELSE a - b

\* Math.ceil(x / d) for x >= 0, d > 0
CeilDiv(x, d) == IF isNaN(x) THEN NaN ELSE (x + d - 1) \div d

----------------------------------------------------------------------------
(* Dates *)

\* The date strings of the model with the day number (days since
\* 1970-01-01) each one parses to.  Any other string does not parse.
EpochDay ==
    [s \in {"2022-12-31", "2023-01-01", "2023-06-20", "2023-07-10", "2023-07-20",
            "2023-07-21", "2023-09-15", "2023-12-31", "2024-01-01"} |->
        CASE s = "2022-12-31" -> 19357
          [] s = "2023-01-01" -> 19358
          [] s = "2023-12-31" -> 19722
          [] s = "2024-01-01" -> 19723
          [] s = "2023-06-20" -> 19528
          [] s = "2023-07-10" -> 19548
          [] s = "2023-07-20" -> 19558
          [] s = "2023-07-21" -> 19559
          [] s = "2023-09-15" -> 19615]

\* A string that is not a date.
InvalidDate == "not-a-date"

\* 1000 * 60 * 60 * 24 milliseconds, in seconds
MsPerDay == 60 * 60 * 24

\* new Date(s).getTime()
Date_getTime(s) == IF s \in DOMAIN EpochDay THEN EpochDay[s] * MsPerDay ELSE NaN

daysBetween(date1, date2) ==
    LET d1 == Date_getTime(date1)
        d2 == Date_getTime(date2)
        diffTime == AbsDiff(d1, d2)
    IN  CeilDiv(diffTime, MsPerDay)

\* new Date(s).getFullYear(): the year of the local calendar date, in a
\* process whose local time is `offset` seconds ahead of UTC.  The dates of
\* the model lie in 2022, 2023 and 2024.
Date_getFullYear(s, offset) ==
    LET time == Date_getTime(s)
    IN  IF isNaN(time) THEN NaN
        ELSE IF time + offset < Date_getTime("2023-01-01") THEN 2022
        ELSE IF time + offset < Date_getTime("2024-01-01") THEN 2023
        ELSE 2024

----------------------------------------------------------------------------
(* Array.prototype.sort(compare): a stable sort.  Each element, in input   *)
(* order, is put behind the last element that does not compare greater.    *)
(* The comparator is named by a record: [by |-> "date"] is the comparator  *)
(* of the participation lists, [by |-> criteria, ascending |-> b] the one  *)
(* of sortProfessors.                                                      *)

\* (a, b) => new Date(a.date).getTime() - new Date(b.date).getTime()
\* A NaN result counts as 0 in Array.prototype.sort.
CompareByDate(a, b) ==
    LET aTime == Date_getTime(a.date)
        bTime == Date_getTime(b.date)
    IN  IF isNaN(aTime) \/ isNaN(bTime) THEN 0 ELSE aTime - bTime

\* The names of the model in the order of String.prototype.localeCompare.
CollationRank ==
    [n \in {"Ivanov", "N", "Petrov"} |->
        CASE n = "Ivanov" -> 1
          [] n = "N" -> 2
          [] n = "Petrov" -> 3]

\* a.localeCompare(b): negative, 0 or positive
localeCompare(a, b) == CollationRank[a] - CollationRank[b]

\* a.lastDate ? new Date(a.lastDate).getTime() : 0
LastParticipationTime(a) == IF Truthy(a.lastDate) THEN Date_getTime(a.lastDate[1]) ELSE 0

\* The comparator of sortProfessors; a criteria that matches no case of the
\* switch leaves comparison at 0, and so does, in Array.prototype.sort, a
\* comparison that is NaN.
CompareProfessors(criteria, ascending, a, b) ==
    LET aDate == LastParticipationTime(a)
        bDate == LastParticipationTime(b)
        comparison ==
            CASE criteria = "distance" -> a.km - b.km
              [] criteria = "lastParticipation" ->
                     IF isNaN(aDate) \/ isNaN(bDate) THEN 0 ELSE aDate - bDate
              [] criteria = "participationCount" -> a.count - b.count
              [] criteria = "scienceRating" -> a.science - b.science
              [] criteria = "name" -> localeCompare(a.names, b.names)
              [] OTHER -> 0
    IN  IF ascending THEN comparison ELSE 0 - comparison

Compare(how, a, b) ==
    IF how.by = "date" THEN CompareByDate(a, b)
    ELSE CompareProfessors(how.by, how.ascending, a, b)

RECURSIVE Insert(_, _, _)
Insert(sorted, x, how) ==
    IF sorted = << >> THEN <<x>>
    ELSE LET last == sorted[Len(sorted)]
         IN  IF Compare(how, last, x) > 0
             THEN Append(Insert(SubSeq(sorted, 1, Len(sorted) - 1), x, how), last)
             ELSE Append(sorted, x)

RECURSIVE Sort(_, _)
Sort(array, how) ==
    IF array = << >> THEN << >>
    ELSE Insert(Sort(SubSeq(array, 1, Len(array) - 1), how), array[Len(array)], how)

\* Array.prototype.slice(0, end), end >= 0
Slice(array, end) == SubSeq(array, 1, IF end < Len(array) THEN end ELSE Len(array))

----------------------------------------------------------------------------
(* Consecutive participations *)

\* The streak threshold in days.
ChainGapDays == 30

\* proc.m1 === professor.id || ... || proc.m7 === professor.id
IsMember(proc, professor) ==
    \/ proc.m1 = Some(professor.id)
    \/ proc.m2 = Some(professor.id)
    \/ proc.m3 = Some(professor.id)
    \/ proc.m4 = Some(professor.id)
    \/ proc.m5 = Some(professor.id)
    \/ proc.m6 = Some(professor.id)
    \/ proc.m7 = Some(professor.id)

\* CountBackward breaking the chain at a gap of 30 days already (>= for >).
RECURSIVE CountBackwardBreakAt30(_, _, _)
CountBackwardBreakAt30(participations, i, consecutiveCount) ==
    IF i > 1
    THEN LET daysDiff == daysBetween(participations[i - 1].date, participations[i].date)
         IN  IF NumGE(daysDiff, 30)
             THEN consecutiveCount
             ELSE CountBackwardBreakAt30(participations, i - 1, consecutiveCount + 1)
    ELSE consecutiveCount

\* The loop of calculateConsecutiveParticipations, at index i with the
\* count so far.
RECURSIVE CountBackward(_, _, _)
CountBackward(participations, i, consecutiveCount) ==
    IF i > 1
    THEN LET daysDiff == daysBetween(participations[i - 1].date, participations[i].date)
         IN  IF NumGT(daysDiff, ChainGapDays)
             THEN consecutiveCount
             ELSE CountBackward(participations, i - 1, consecutiveCount + 1)
    ELSE consecutiveCount

\* calculateConsecutiveParticipations without the sort: the participations
\* in the order of the procedure list.
calculateConsecutiveParticipationsUnsorted(professor, procs) ==
    LET participations == SelectSeq(procs, LAMBDA proc : IsMember(proc, professor))
    IN  IF Len(participations) = 0 THEN 0
        ELSE CountBackward(participations, Len(participations), 1)

calculateConsecutiveParticipations(professor, procs) ==
    LET participations ==
            Sort(SelectSeq(procs, LAMBDA proc : IsMember(proc, professor)), [by |-> "date"])
    IN  IF Len(participations) = 0 THEN 0
        ELSE CountBackward(participations, Len(participations), 1)

\* ProceduresAfterStreak with .sort applied to the procedures themselves.
ProceduresAfterStreakInPlace(professor, procs) == Sort(procs, [by |-> "date"])

\* The caller's procedures array after calculateConsecutiveParticipations:
\* Array.prototype.sort works in place, on the new array .filter returned.
ProceduresAfterStreak(professor, procs) == procs

----------------------------------------------------------------------------
(* Participation history and workload *)

\* getProfessorParticipationHistory without the sort: the filter alone.
getProfessorParticipationHistoryUnsorted(professor, procs) ==
    SelectSeq(procs, LAMBDA proc : IsMember(proc, professor))

getProfessorParticipationHistory(professor, procs) ==
    Sort(SelectSeq(procs, LAMBDA proc : IsMember(proc, professor)), [by |-> "date"])

\* ProceduresAfterHistory with .sort applied to the procedures themselves.
ProceduresAfterHistoryInPlace(professor, procs) == Sort(procs, [by |-> "date"])

\* The caller's procedures array after getProfessorParticipationHistory:
\* .sort works on the new array .filter returned.
ProceduresAfterHistory(professor, procs) == procs

\* history.reduce(...): the sum of daysBetween over the adjacent entries of
\* the history, NaN as soon as one of them is NaN.
RECURSIVE TotalDays(_, _)
TotalDays(hist, index) ==
    IF index <= 1 THEN 0
    ELSE LET sum == TotalDays(hist, index - 1)
             gap == daysBetween(hist[index - 1].date, hist[index].date)
         IN  IF isNaN(sum) \/ isNaN(gap) THEN NaN ELSE sum + gap

\* a / b of numbers, b > 0: the quotient as the fraction it is, NaN for a NaN.
Quotient(a, b) == IF isNaN(a) THEN <<NaN, 1>> ELSE <<a, b>>

\* calculateProfessorWorkload; year is Null when the argument is not given,
\* and `offset` is how far the local time of the process is ahead of UTC
\* (getFullYear reads the local calendar).
calculateProfessorWorkload(professor, procs, year, offset) ==
    LET hist == getProfessorParticipationHistory(professor, procs)
        participationsThisYear ==
            IF year # Null /\ year[1] # 0
            THEN Len(SelectSeq(hist, LAMBDA proc :
                         Date_getFullYear(proc.date, offset) = year[1]))
            ELSE Len(hist)
        averageDaysBetween ==
            IF Len(hist) > 1
            THEN Quotient(TotalDays(hist, Len(hist)), Len(hist) - 1)
            ELSE <<0, 1>>
    IN  [totalParticipations |-> Len(hist),
         participationsThisYear |-> participationsThisYear,
         averageDaysBetweenParticipations |-> averageDaysBetween,
         lastParticipationDate |->
             IF Len(hist) > 0 THEN Some(hist[Len(hist)].date) ELSE Null]

----------------------------------------------------------------------------
(* Availability *)

\* The cooldown test of isProfessorAvailable.
RecentlyParticipated(lastDate, target, reqs) ==
    /\ Truthy(lastDate)
    /\ NumLT(daysBetween(lastDate[1], target), reqs.minDaysBetweenParticipations)

\* StreakReached letting a streak equal to the cap pass (> for >=).
StreakReachedStrict(consecutiveCount, reqs) ==
    consecutiveCount > reqs.maxConsecutiveParticipations

\* The streak test of isProfessorAvailable.
StreakReached(consecutiveCount, reqs) ==
    consecutiveCount >= reqs.maxConsecutiveParticipations

\* The three return statements of isProfessorAvailable.
CooldownVerdict(professor, target, reqs) ==
    [professor |-> professor,
     isAvailable |-> FALSE,
     reason |-> <<"Last participation was ",
                  ToString(daysBetween(professor.lastDate[1], target)),
                  " days ago (minimum: ",
                  ToString(reqs.minDaysBetweenParticipations), ")">>,
     lastParticipationDate |-> professor.lastDate,
     consecutiveCount |-> 0]

StreakVerdict(professor, consecutiveCount, reqs) ==
    [professor |-> professor,
     isAvailable |-> FALSE,
     reason |-> <<"Maximum consecutive participations reached (",
                  ToString(consecutiveCount), "/",
                  ToString(reqs.maxConsecutiveParticipations), ")">>,
     lastParticipationDate |-> professor.lastDate,
     consecutiveCount |-> consecutiveCount]

\* reason is not set: it is Null here.
AvailableVerdict(professor, consecutiveCount) ==
    [professor |-> professor,
     isAvailable |-> TRUE,
     reason |-> Null,
     lastParticipationDate |-> professor.lastDate,
     consecutiveCount |-> consecutiveCount]

\* isProfessorAvailable with the streak rule evaluated before the cooldown rule.
isProfessorAvailableStreakFirst(professor, target, reqs, procs) ==
    LET consecutiveCount == calculateConsecutiveParticipations(professor, procs)
    IN  IF StreakReached(consecutiveCount, reqs)
        THEN StreakVerdict(professor, consecutiveCount, reqs)
        ELSE IF RecentlyParticipated(professor.lastDate, target, reqs)
        THEN CooldownVerdict(professor, target, reqs)
        ELSE AvailableVerdict(professor, consecutiveCount)

\* isProfessorAvailable with the cooldown rule falling back on preLastDate
\* when lastDate is absent (lastDate || preLastDate).
isProfessorAvailableOrPreLast(professor, target, reqs, procs) ==
    LET seen == [professor EXCEPT
                    !.lastDate = IF Truthy(@) THEN @ ELSE professor.preLastDate]
    IN  IF RecentlyParticipated(seen.lastDate, target, reqs)
        THEN CooldownVerdict(seen, target, reqs)
        ELSE LET consecutiveCount == calculateConsecutiveParticipations(professor, procs)
             IN  IF StreakReached(consecutiveCount, reqs)
                 THEN StreakVerdict(professor, consecutiveCount, reqs)
                 ELSE AvailableVerdict(professor, consecutiveCount)

isProfessorAvailable(professor, target, reqs, procs) ==
    IF RecentlyParticipated(professor.lastDate, target, reqs)
    THEN CooldownVerdict(professor, target, reqs)
    ELSE LET consecutiveCount == calculateConsecutiveParticipations(professor, procs)
         IN  IF StreakReached(consecutiveCount, reqs)
             THEN StreakVerdict(professor, consecutiveCount, reqs)
             ELSE AvailableVerdict(professor, consecutiveCount)

\* The caller's procedures array after isProfessorAvailable: the streak is
\* computed only past the cooldown rule.
ProceduresAfterAvailability(professor, target, reqs, procs) ==
    IF RecentlyParticipated(professor.lastDate, target, reqs)
    THEN procs
    ELSE ProceduresAfterStreak(professor, procs)

----------------------------------------------------------------------------
(* Filtering, sorting and the composition *)

\* No filter, and a filter criterion that is not given.
NoFilter == Null

\* ApplyFilter with the distance criterion exclusive (< for <=).
ApplyFilterBelowDistance(profs, filter) ==
    IF filter = Null THEN profs
    ELSE LET f == filter[1]
             byTitle == IF Truthy(f.title)
                        THEN SelectSeq(profs, LAMBDA p : p.title = f.title[1])
                        ELSE profs
             byUniversity == IF Truthy(f.university)
                             THEN SelectSeq(byTitle, LAMBDA p : p.university = f.university[1])
                             ELSE byTitle
             byMinScience == IF f.minScienceRating # Null
                             THEN SelectSeq(byUniversity, LAMBDA p : p.science >= f.minScienceRating[1])
                             ELSE byUniversity
             byMaxScience == IF f.maxScienceRating # Null
                             THEN SelectSeq(byMinScience, LAMBDA p : p.science <= f.maxScienceRating[1])
                             ELSE byMinScience
             byDistance == IF f.maxDistance # Null
                           THEN SelectSeq(byMaxScience, LAMBDA p : p.km < f.maxDistance[1])
                           ELSE byMaxScience
         IN  IF f.excludeIds # Null
             THEN SelectSeq(byDistance, LAMBDA p : p.id \notin f.excludeIds[1])
             ELSE byDistance

\* The filter chain of getAvailableProfessors.  A filter is Null or a record
\* of optional criteria.
ApplyFilter(profs, filter) ==
    IF filter = Null THEN profs
    ELSE LET f == filter[1]
             byTitle == IF Truthy(f.title)
                        THEN SelectSeq(profs, LAMBDA p : p.title = f.title[1])
                        ELSE profs
             byUniversity == IF Truthy(f.university)
                             THEN SelectSeq(byTitle, LAMBDA p : p.university = f.university[1])
                             ELSE byTitle
             byMinScience == IF f.minScienceRating # Null
                             THEN SelectSeq(byUniversity, LAMBDA p : p.science >= f.minScienceRating[1])
                             ELSE byUniversity
             byMaxScience == IF f.maxScienceRating # Null
                             THEN SelectSeq(byMinScience, LAMBDA p : p.science <= f.maxScienceRating[1])
                             ELSE byMinScience
             byDistance == IF f.maxDistance # Null
                           THEN SelectSeq(byMaxScience, LAMBDA p : p.km <= f.maxDistance[1])
                           ELSE byMaxScience
         IN  IF f.excludeIds # Null
             THEN SelectSeq(byDistance, LAMBDA p : p.id \notin f.excludeIds[1])
             ELSE byDistance

getAvailableProfessors(profs, target, reqs, procs, filter) ==
    LET filteredProfessors == ApplyFilter(profs, filter)
    IN  [i \in 1..Len(filteredProfessors) |->
            isProfessorAvailable(filteredProfessors[i], target, reqs, procs)]

\* The caller's procedures array after getAvailableProfessors has asked
\* isProfessorAvailable about each of the filtered professors in turn.
RECURSIVE ProceduresAfterEach(_, _, _, _)
ProceduresAfterEach(filteredProfessors, target, reqs, procs) ==
    IF filteredProfessors = << >> THEN procs
    ELSE ProceduresAfterEach(Tail(filteredProfessors), target, reqs,
             ProceduresAfterAvailability(Head(filteredProfessors), target, reqs, procs))

\* sortProfessors reversing the ascending list for ascending = false instead
\* of negating the comparison.
sortProfessorsReversing(profs, criteria, ascending) ==
    LET up == Sort(profs, [by |-> criteria, ascending |-> TRUE])
    IN  IF ascending THEN up ELSE [k \in 1..Len(up) |-> up[Len(up) + 1 - k]]

sortProfessors(profs, criteria, ascending) ==
    Sort(profs, [by |-> criteria, ascending |-> ascending])

\* ProfessorsAfterSort without the copy: .sort applied to the argument.
ProfessorsAfterSortInPlace(profs, criteria, ascending) ==
    sortProfessors(profs, criteria, ascending)

\* The caller's professors array after sortProfessors: .sort works on the
\* copy [...professors].
ProfessorsAfterSort(profs, criteria, ascending) == profs

\* AvailableOf keeping every record, available or not.
AvailableOfEveryone(records) == [i \in 1..Len(records) |-> records[i].professor]

\* The professors of the availability records that are available.
AvailableOf(records) ==
    LET kept == SelectSeq(records, LAMBDA av : av.isAvailable)
    IN  [i \in 1..Len(kept) |-> kept[i].professor]

\* ShortfallErrors reporting a rank whose pool just meets its quota (<= for <).
ShortfallErrorsAtQuota(professorsList, associateProfessorsList, reqs) ==
    (IF Len(professorsList) <= reqs.professorCount
     THEN << <<"Insufficient professors available: ",
               ToString(Len(professorsList)), "/", ToString(reqs.professorCount)>> >>
     ELSE << >>)
    \o
    (IF Len(associateProfessorsList) <= reqs.associateProfessorCount
     THEN << <<"Insufficient associate professors available: ",
               ToString(Len(associateProfessorsList)), "/",
               ToString(reqs.associateProfessorCount)>> >>
     ELSE << >>)

\* ShortfallErrors without the entry for the associate professors.
ShortfallErrorsProfessorsOnly(professorsList, associateProfessorsList, reqs) ==
    IF Len(professorsList) < reqs.professorCount
    THEN << <<"Insufficient professors available: ",
              ToString(Len(professorsList)), "/", ToString(reqs.professorCount)>> >>
    ELSE << >>

\* The errors of createJuryComposition for the two eligible rank lists.
ShortfallErrors(professorsList, associateProfessorsList, reqs) ==
    (IF Len(professorsList) < reqs.professorCount
     THEN << <<"Insufficient professors available: ",
               ToString(Len(professorsList)), "/", ToString(reqs.professorCount)>> >>
     ELSE << >>)
    \o
    (IF Len(associateProfessorsList) < reqs.associateProfessorCount
     THEN << <<"Insufficient associate professors available: ",
               ToString(Len(associateProfessorsList)), "/",
               ToString(reqs.associateProfessorCount)>> >>
     ELSE << >>)

\* DistanceWarnings counting a member at exactly the cap (>= for >).
DistanceWarningsAtCap(externalMembers, reqs) ==
    LET distantExternalMembers ==
            SelectSeq(externalMembers, LAMBDA p : p.km >= reqs.maxDistanceForExternal)
    IN  IF Len(distantExternalMembers) > 0
        THEN << <<ToString(Len(distantExternalMembers)),
                  " external members exceed maximum distance (",
                  ToString(reqs.maxDistanceForExternal), "km)">> >>
        ELSE << >>

\* The warnings of createJuryComposition for the external members.
DistanceWarnings(externalMembers, reqs) ==
    LET distantExternalMembers ==
            SelectSeq(externalMembers, LAMBDA p : p.km > reqs.maxDistanceForExternal)
    IN  IF Len(distantExternalMembers) > 0
        THEN << <<ToString(Len(distantExternalMembers)),
                  " external members exceed maximum distance (",
                  ToString(reqs.maxDistanceForExternal), "km)">> >>
        ELSE << >>

\* SelectClosest without the sort: the first `count` of the input order.
SelectFirst(rankList, count) == Slice(rankList, count)

\* SelectClosest without the slice: the whole rank, closest first.
SelectAllSorted(rankList, count) == sortProfessors(rankList, "distance", TRUE)

\* The selection of one rank: closest first, at most `count`.
SelectClosest(rankList, count) == Slice(sortProfessors(rankList, "distance", TRUE), count)

\* AllMembersOf with the associate professors first.
AllMembersAssociatesFirst(selectedProfessors, selectedAssociateProfessors) ==
    selectedAssociateProfessors \o selectedProfessors

\* [...selectedProfessors, ...selectedAssociateProfessors]
\* allMembers holding the selected professors only.
AllMembersProfessorsOnly(selectedProfessors, selectedAssociateProfessors) ==
    selectedProfessors

AllMembersOf(selectedProfessors, selectedAssociateProfessors) ==
    selectedProfessors \o selectedAssociateProfessors

\* allMembers.filter(p => p.university === homeUniversity)
InternalOf(allMembers, home) == SelectSeq(allMembers, LAMBDA p : p.university = home)

\* ExternalOf taking every member whose distance is not 0 for external.
ExternalOfByDistance(allMembers, home) == SelectSeq(allMembers, LAMBDA p : p.km # 0)

\* allMembers.filter(p => p.university !== homeUniversity)
ExternalOf(allMembers, home) == SelectSeq(allMembers, LAMBDA p : p.university # home)

\* createJuryComposition with the associate professors taken from all the
\* available professors: the title filter of the second list is left out.
createJuryCompositionAnyTitle(profs, procs, target, reqs, home) ==
    LET availableProfessors ==
            AvailableOf(getAvailableProfessors(profs, target, reqs, procs, NoFilter))
        professorsList == SelectSeq(availableProfessors, LAMBDA p : p.title = "professor")
        associateProfessorsList == availableProfessors
        selectedProfessors == SelectClosest(professorsList, reqs.professorCount)
        selectedAssociateProfessors ==
            SelectClosest(associateProfessorsList, reqs.associateProfessorCount)
        allMembers == AllMembersOf(selectedProfessors, selectedAssociateProfessors)
        internalMembers == InternalOf(allMembers, home)
        externalMembers == ExternalOf(allMembers, home)
    IN  [professors |-> selectedProfessors,
         associateProfessors |-> selectedAssociateProfessors,
         externalMembers |-> externalMembers,
         internalMembers |-> internalMembers,
         allMembers |-> allMembers,
         errors |-> ShortfallErrors(professorsList, associateProfessorsList, reqs),
         warnings |-> DistanceWarnings(externalMembers, reqs)]

createJuryComposition(profs, procs, target, reqs, home) ==
    LET availableProfessors ==
            AvailableOf(getAvailableProfessors(profs, target, reqs, procs, NoFilter))
        professorsList == SelectSeq(availableProfessors, LAMBDA p : p.title = "professor")
        associateProfessorsList == SelectSeq(availableProfessors, LAMBDA p : p.title = "docent")
        selectedProfessors == SelectClosest(professorsList, reqs.professorCount)
        selectedAssociateProfessors ==
            SelectClosest(associateProfessorsList, reqs.associateProfessorCount)
        allMembers == AllMembersOf(selectedProfessors, selectedAssociateProfessors)
        internalMembers == InternalOf(allMembers, home)
        externalMembers == ExternalOf(allMembers, home)
    IN  [professors |-> selectedProfessors,
         associateProfessors |-> selectedAssociateProfessors,
         externalMembers |-> externalMembers,
         internalMembers |-> internalMembers,
         allMembers |-> allMembers,
         errors |-> ShortfallErrors(professorsList, associateProfessorsList, reqs),
         warnings |-> DistanceWarnings(externalMembers, reqs)]

----------------------------------------------------------------------------
(* The CSV parsers.  A CSV text is the sequence of its lines, the header   *)
(* first, and a line is the sequence of its cells as split(',') and trim() *)
(* give them; a blank line is the one empty cell <<"">>.                   *)

\* The whole numbers the cells of the model start with.
LeadingNumber ==
    [c \in {"0", "1", "2", "3", "4", "1x", "2x", "3x", "4x", "100", "-5"} |->
        CASE c = "0" -> 0
          [] c = "1" -> 1
          [] c = "2" -> 2
          [] c = "3" -> 3
          [] c = "4" -> 4
          [] c = "1x" -> 1
          [] c = "2x" -> 2
          [] c = "3x" -> 3
          [] c = "4x" -> 4
          [] c = "100" -> 100
          [] c = "-5" -> 0 - 5]

\* parseInt(cell): the whole number the cell starts with, NaN when it starts
\* with none.
parseInt(cell) == IF cell \in DOMAIN LeadingNumber THEN LeadingNumber[cell] ELSE NaN

\* parseFloat(cell) on a distance cell; the distance cells of the model hold
\* whole numbers.
parseFloat(cell) == IF cell \in DOMAIN LeadingNumber THEN LeadingNumber[cell] ELSE NaN

\* parseFloat(cell) on a rating cell, in tenths (4.7 is 47).
parseFloatTenths(cell) ==
    CASE cell = "4.7" -> 47
      [] cell = "4.6" -> 46
      [] cell = "5.2" -> 52
      [] OTHER -> NaN

\* `${x}` for a number
NumberText(x) == IF isNaN(x) THEN "NaN" ELSE ToString(x)

\* `${x}` for a rating held in tenths
RatingText(x) ==
    IF isNaN(x) THEN "NaN" ELSE ToString(x \div 10) \o "." \o ToString(x % 10)

\* csvContent.trim().split('\n'): the blank lines at the end are gone (the
\* texts of the model start with the header line).
RECURSIVE TrimSplit(_)
TrimSplit(csvContent) ==
    IF Len(csvContent) > 1 /\ csvContent[Len(csvContent)] = <<"">>
    THEN TrimSplit(SubSeq(csvContent, 1, Len(csvContent) - 1))
    ELSE csvContent

\* columns[j] && columns[j] !== 'null' ? columns[j] : null, j counted from 1;
\* a column the line does not have is undefined.
OptionalCell(columns, j) ==
    IF j <= Len(columns) /\ columns[j] # "" /\ columns[j] # "null"
    THEN Some(columns[j])
    ELSE Null

\* columns[j] && columns[j] !== 'null' ? parseInt(columns[j]) : null
\* with Number(columns[j]) in place of the test: Number('') is 0.
MemberCellAsNumber(columns, j) ==
    IF j <= Len(columns) /\ columns[j] # "null"
    THEN Some(IF columns[j] = "" THEN 0 ELSE parseInt(columns[j]))
    ELSE Null

\* columns[j] && columns[j] !== 'null' ? parseInt(columns[j]) : null
MemberCell(columns, j) ==
    IF j <= Len(columns) /\ columns[j] # "" /\ columns[j] # "null"
    THEN Some(parseInt(columns[j]))
    ELSE Null

\* `Line ${i + 1}: ...`; i counts the lines from 0, k from 1.
LineText(k) == <<"Line ", ToString(k)>>

\* An empty CsvParseResult.
NoRows == [data |-> << >>, errors |-> << >>, warnings |-> << >>]

\* The professor record parseProfessorsCsv builds from the columns of a line.
ProfessorOfColumns(columns) ==
    [id |-> parseInt(columns[1]),
     title |-> columns[2],
     names |-> columns[3],
     science |-> parseFloatTenths(columns[4]),
     university |-> columns[5],
     km |-> parseFloat(columns[6]),
     count |-> parseInt(columns[7]),
     preLastDate |-> OptionalCell(columns, 8),
     lastDate |-> OptionalCell(columns, 9)]

\* The three warnings of parseProfessorsCsv, in the order of the code.
ProfessorWarnings(professor, k) ==
    (IF isNaN(professor.science) \/ professor.science < 46 \/ professor.science > 49
     THEN <<LineText(k) \o <<": Science rating ", RatingText(professor.science),
                             " is outside expected range (4.6-4.9)">>>>
     ELSE << >>)
    \o (IF isNaN(professor.km) \/ professor.km < 0
        THEN <<LineText(k) \o <<": Invalid distance ", NumberText(professor.km)>>>>
        ELSE << >>)
    \o (IF isNaN(professor.count) \/ professor.count < 0
        THEN <<LineText(k) \o <<": Invalid participation count ",
                                NumberText(professor.count)>>>>
        ELSE << >>)

\* One pass of the loop of parseProfessorsCsv over line k.  With a row that
\* fails the id or the title test dropped without an error.
ProfessorLineSilentDrop(result, columns, k) ==
    LET professor == ProfessorOfColumns(columns)
    IN  IF columns = <<"">> THEN result
        ELSE IF Len(columns) < 9
        THEN [result EXCEPT !.errors = Append(@,
                 LineText(k) \o <<": Insufficient columns (expected 9, got ",
                                  ToString(Len(columns)), ")">>)]
        ELSE IF isNaN(professor.id) THEN result
        ELSE IF professor.title \notin {"professor", "docent"} THEN result
        ELSE [result EXCEPT !.data = Append(@, professor),
                            !.warnings = @ \o ProfessorWarnings(professor, k)]

\* One pass of the loop of parseProfessorsCsv over line k.
ProfessorLine(result, columns, k) ==
    LET professor == ProfessorOfColumns(columns)
    IN  IF columns = <<"">> THEN result
        ELSE IF Len(columns) < 9
        THEN [result EXCEPT !.errors = Append(@,
                 LineText(k) \o <<": Insufficient columns (expected 9, got ",
                                  ToString(Len(columns)), ")">>)]
        ELSE IF isNaN(professor.id)
        THEN [result EXCEPT !.errors = Append(@, LineText(k) \o <<": Invalid ID">>)]
        ELSE IF professor.title \notin {"professor", "docent"}
        THEN [result EXCEPT !.errors = Append(@,
                 LineText(k) \o <<": Invalid title \"", professor.title, "\"">>)]
        ELSE [result EXCEPT !.data = Append(@, professor),
                            !.warnings = @ \o ProfessorWarnings(professor, k)]

RECURSIVE ProfessorLinesFrom(_, _, _)
ProfessorLinesFrom(lines, k, result) ==
    IF k > Len(lines) THEN result
    ELSE ProfessorLinesFrom(lines, k + 1, ProfessorLine(result, lines[k], k))

\* The loop starts at the second line: the header is skipped.
parseProfessorsCsv(csvContent) == ProfessorLinesFrom(TrimSplit(csvContent), 2, NoRows)

\* new Date(dateString) is a Date whose time is a number
isValidDate(dateString) == ~isNaN(Date_getTime(dateString))

\* The procedure record parseProceduresCsv builds from the columns of a line.
ProcedureOfColumns(columns) ==
    [id |-> parseInt(columns[1]),
     date |-> columns[2],
     procedure |-> columns[3],
     m1 |-> MemberCell(columns, 4),
     m2 |-> MemberCell(columns, 5),
     m3 |-> MemberCell(columns, 6),
     m4 |-> MemberCell(columns, 7),
     m5 |-> MemberCell(columns, 8),
     m6 |-> MemberCell(columns, 9),
     m7 |-> MemberCell(columns, 10)]

\* One pass of the loop of parseProceduresCsv over line k.
ProcedureLine(result, columns, k) ==
    LET procedure == ProcedureOfColumns(columns)
    IN  IF columns = <<"">> THEN result
        ELSE IF Len(columns) < 9
        THEN [result EXCEPT !.errors = Append(@,
                 LineText(k) \o <<": Insufficient columns (expected 9, got ",
                                  ToString(Len(columns)), ")">>)]
        ELSE IF isNaN(procedure.id)
        THEN [result EXCEPT !.errors = Append(@, LineText(k) \o <<": Invalid ID">>)]
        ELSE IF procedure.procedure \notin {"doktor", "docent", "DN", "professor"}
        THEN [result EXCEPT !.errors = Append(@,
                 LineText(k) \o <<": Invalid procedure type \"",
                                  procedure.procedure, "\"">>)]
        ELSE [result EXCEPT
                 !.data = Append(@, procedure),
                 !.warnings = IF isValidDate(procedure.date) THEN @
                              ELSE Append(@, LineText(k) \o
                                       <<": Invalid date format \"",
                                         procedure.date, "\"">>)]

RECURSIVE ProcedureLinesFrom(_, _, _)
ProcedureLinesFrom(lines, k, result) ==
    IF k > Len(lines) THEN result
    ELSE ProcedureLinesFrom(lines, k + 1, ProcedureLine(result, lines[k], k))

parseProceduresCsv(csvContent) == ProcedureLinesFrom(TrimSplit(csvContent), 2, NoRows)

----------------------------------------------------------------------------
(* The loader and the hook *)

\* The fields of a JuryDataLoader after construction.
NewJuryDataLoader ==
    [professors |-> << >>, procedures |-> << >>,
     loadErrors |-> << >>, loadWarnings |-> << >>]

\* The state cells of useJuryData after the first render (requirements
\* apart, which no load reads or writes).
InitialHookState ==
    [professors |-> << >>, procedures |-> << >>, loading |-> FALSE, error |-> Null]

\* What readFileAsText settles with for a file: <<"text", content>> when the
\* read gives a non-empty text, <<"error", message>> when it gives nothing
\* (an empty file included) or fails.  A file of the model is the outcome of
\* reading it: Some(content), Some of the empty text, or Null for onerror.
EmptyText == <<(<<"">>)>>

readFileAsText(file) ==
    IF file = Null THEN <<"error", "File reading error">>
    ELSE IF file[1] = EmptyText THEN <<"error", "Failed to read file">>
    ELSE <<"text", file[1]>>

\* The result of a load that failed before parsing.
FailedLoad(errorMessage) ==
    [data |-> << >>, errors |-> <<errorMessage>>, warnings |-> << >>]

\* loadProfessorsFromCsv: what it returns ...
ProfessorsFromCsvResult(csvContent) == parseProfessorsCsv(csvContent)

\* ... and the loader after it.
LoaderAfterProfessorsFromCsv(ld, csvContent) ==
    LET result == parseProfessorsCsv(csvContent)
    IN  [ld EXCEPT !.professors = IF Len(result.errors) = 0 THEN result.data ELSE @,
                   !.loadErrors = @ \o result.errors,
                   !.loadWarnings = @ \o result.warnings]

\* loadProceduresFromCsv
ProceduresFromCsvResult(csvContent) == parseProceduresCsv(csvContent)

LoaderAfterProceduresFromCsv(ld, csvContent) ==
    LET result == parseProceduresCsv(csvContent)
    IN  [ld EXCEPT !.procedures = IF Len(result.errors) = 0 THEN result.data ELSE @,
                   !.loadErrors = @ \o result.errors,
                   !.loadWarnings = @ \o result.warnings]

\* loadProfessorsFromFile
ProfessorsFileError(file) ==
    <<"Failed to load professors file: ", readFileAsText(file)[2]>>

ProfessorsFromFileResult(file) ==
    IF readFileAsText(file)[1] = "text"
    THEN ProfessorsFromCsvResult(readFileAsText(file)[2])
    ELSE FailedLoad(ProfessorsFileError(file))

LoaderAfterProfessorsFromFile(ld, file) ==
    IF readFileAsText(file)[1] = "text"
    THEN LoaderAfterProfessorsFromCsv(ld, readFileAsText(file)[2])
    ELSE [ld EXCEPT !.loadErrors = Append(@, ProfessorsFileError(file))]

\* loadProceduresFromFile
ProceduresFileError(file) ==
    <<"Failed to load procedures file: ", readFileAsText(file)[2]>>

ProceduresFromFileResult(file) ==
    IF readFileAsText(file)[1] = "text"
    THEN ProceduresFromCsvResult(readFileAsText(file)[2])
    ELSE FailedLoad(ProceduresFileError(file))

LoaderAfterProceduresFromFile(ld, file) ==
    IF readFileAsText(file)[1] = "text"
    THEN LoaderAfterProceduresFromCsv(ld, readFileAsText(file)[2])
    ELSE [ld EXCEPT !.loadErrors = Append(@, ProceduresFileError(file))]

\* getProfessors() and getProcedures(): copies of the stored arrays
getProfessors(ld) == ld.professors

getProcedures(ld) == ld.procedures

----------------------------------------------------------------------------
(* JuryCalendar *)

\* The requirements JuryCalendar passes to createJuryComposition.
CalendarRequirements ==
    [professorCount |-> 3,
     associateProfessorCount |-> 2,
     maxConsecutiveParticipations |-> 3,
     minDaysBetweenParticipations |-> 30,
     maxDistanceForExternal |-> 100]

\* procedureTypeConfig[procedure.procedure].label
ProcedureTypeLabel(type) ==
    CASE type = "doktor" -> "PhD Defense"
      [] type = "docent" -> "Associate Professor"
      [] type = "DN" -> "Doctor of Science"
      [] type = "professor" -> "Professor"

\* The status of an event.
EventStatus(c, assignedMembers, requiredMembers) ==
    IF Len(c.errors) > 0 THEN "error"
    ELSE IF assignedMembers >= requiredMembers THEN "complete"
    ELSE IF assignedMembers > 0 THEN "partial"
    ELSE "incomplete"

\* The event made of a procedure and its composition c.
EventOf(procedure, c) ==
    LET assignedMembers == Len(c.allMembers)
        requiredMembers == Len(c.professors) + Len(c.associateProfessors)
    IN  [id |-> ToString(procedure.id),
         title |-> <<ProcedureTypeLabel(procedure.procedure), " (",
                     ToString(assignedMembers), "/", ToString(requiredMembers), ")">>,
         start |-> Date_getTime(procedure.date),
         end |-> Date_getTime(procedure.date),
         resource |-> [procedure |-> procedure,
                       composition |-> c,
                       status |-> EventStatus(c, assignedMembers, requiredMembers),
                       assignedMembers |-> assignedMembers,
                       requiredMembers |-> requiredMembers]]

\* The event of one procedure; its composition is computed once.
CalendarEvent(procedure, profs, procs, home) ==
    CHOOSE e \in {EventOf(procedure, c) :
                     c \in {createJuryComposition(profs, procs, procedure.date,
                                                  CalendarRequirements, home)}} : TRUE

\* procedures.map(procedure => ...)
JuryCalendarEvents(profs, procs, home) ==
    [i \in 1..Len(procs) |-> CalendarEvent(procs[i], profs, procs, home)]

\* The procedures array after the map: createJuryComposition was called once
\* for the date of each procedure.
RECURSIVE ProceduresAfterEvents(_, _, _)
ProceduresAfterEvents(profs, procs, i) ==
    IF i > Len(procs) THEN procs
    ELSE ProceduresAfterEvents(profs,
             ProceduresAfterEach(profs, procs[i].date, CalendarRequirements, procs),
             i + 1)

----------------------------------------------------------------------------
(* The inputs of the model *)

\* The longest procedure list.
MaxProcedures == 3

\* The largest maxConsecutiveParticipations.
MaxConsecutive == 2

\* The longest professor list.
MaxProfessors == 3

\* The largest professorCount.
MaxProfessorCount == 3

\* The largest associateProfessorCount.
MaxAssociateProfessorCount == 1

Professor(id, title, university, km, count, lastDate) ==
    [id |-> id, title |-> title, names |-> "N", science |-> 47,
     university |-> university, km |-> km, count |-> count,
     preLastDate |-> Null, lastDate |-> lastDate]

\* A procedure with members m1, m4 and m7; the other slots are empty.
Procedure(id, date, m1, m4, m7) ==
    [id |-> id, date |-> date, procedure |-> "doktor",
     m1 |-> m1, m2 |-> Null, m3 |-> Null, m4 |-> m4,
     m5 |-> Null, m6 |-> Null, m7 |-> m7]

\* The procedure dates: 30 days, 31 days and 1 day apart.
ProcedureDates == {"2023-06-20", "2023-07-20", "2023-07-21"}

\* Professor 1 in the first slot, in the last slot, in no slot (professor 2
\* in a middle one), and no member at all.
MemberSlots == {<<Some(1), Null, Null>>, <<Null, Null, Some(1)>>,
                <<Null, Some(2), Null>>, <<Null, Null, Null>>}

\* The procedure lists of length n over the given slot patterns, ids 1..n.
ProcedureLists(n, slots) ==
    {[i \in 1..n |-> Procedure(i, f[i][1], f[i][2][1], f[i][2][2], f[i][2][3])] :
        f \in [1..n -> ProcedureDates \X slots]}

\* The procedure lists of length n over the given dates and slot patterns,
\* ids 1..n.
ProcedureListsOver(n, dates, slots) ==
    {[i \in 1..n |-> Procedure(i, f[i][1], f[i][2][1], f[i][2][2], f[i][2][3])] :
        f \in [1..n -> dates \X slots]}

Requirements(professorCount, associateProfessorCount, maxConsecutive, minDays, maxDistance) ==
    [professorCount |-> professorCount,
     associateProfessorCount |-> associateProfessorCount,
     maxConsecutiveParticipations |-> maxConsecutive,
     minDaysBetweenParticipations |-> minDays,
     maxDistanceForExternal |-> maxDistance]

\* DEFAULT_JURY_REQUIREMENTS
DefaultRequirements == Requirements(3, 2, 3, 30, 100)

\* The custom requirements of the documentation.
CustomRequirements == Requirements(4, 3, 2, 45, 200)

\* No call of the other functions has returned yet, nothing was parsed or
\* loaded and the calendar was not rendered.
NothingElseReturned ==
    /\ days = Null
    /\ history = Null
    /\ workload = Null
    /\ sortedList = Null
    /\ available = Null
    /\ parsed = Null
    /\ loader = NewJuryDataLoader
    /\ professorsResult = Null
    /\ proceduresResult = Null
    /\ hook = InitialHookState
    /\ pending = << >>
    /\ events = Null

----------------------------------------------------------------------------
(* calculateConsecutiveParticipations on one professor and every procedure *)
(* list                                                                    *)

InitStreak ==
    /\ \E count \in {0, 5} :
           professors = <<Professor(1, "professor", "U1", 0, count, Null)>>
    /\ \E n \in 0..MaxProcedures : procedures \in ProcedureLists(n, MemberSlots)
    /\ targetDate = "2023-09-15"
    /\ requirements \in {DefaultRequirements, CustomRequirements}
    /\ homeUniversity = "U1"
    /\ availability = Null
    /\ consecutive = Null
    /\ composition = Null
    /\ NothingElseReturned

CallCalculateConsecutiveParticipations ==
    /\ \E i \in 1..Len(professors) :
           /\ consecutive' = Some([professor |-> professors[i],
                                   count |-> calculateConsecutiveParticipations(professors[i], procedures)])
           /\ procedures' = ProceduresAfterStreak(professors[i], procedures)
    /\ UNCHANGED <<professors, targetDate, requirements, homeUniversity,
                   availability, composition, days, history, workload, sortedList, available, collaborators>>

NextStreak == CallCalculateConsecutiveParticipations

SpecStreak == InitStreak /\ [][NextStreak]_vars

----------------------------------------------------------------------------
(* isProfessorAvailable on one professor *)

InitAvail ==
    /\ \E lastDate \in {Null, Some("2023-06-20"), Some(InvalidDate)} :
           professors = <<Professor(1, "professor", "U1", 0, 5, lastDate)>>
    /\ \E n \in 0..MaxProcedures :
           procedures \in ProcedureLists(n, {<<Some(1), Null, Null>>, <<Null, Some(2), Null>>})
    /\ targetDate \in {"2023-07-10", "2023-09-15", InvalidDate}
    /\ \E maxConsecutive \in 1..MaxConsecutive, minDays \in {0, 30} :
           requirements = Requirements(3, 2, maxConsecutive, minDays, 100)
    /\ homeUniversity = "U1"
    /\ availability = Null
    /\ consecutive = Null
    /\ composition = Null
    /\ NothingElseReturned

CallIsProfessorAvailable ==
    /\ \E i \in 1..Len(professors) :
           /\ availability' = Some(isProfessorAvailable(professors[i], targetDate,
                                                        requirements, procedures))
           /\ procedures' = ProceduresAfterAvailability(professors[i], targetDate,
                                                        requirements, procedures)
    /\ UNCHANGED <<professors, targetDate, requirements, homeUniversity,
                   consecutive, composition, days, history, workload, sortedList, available, collaborators>>

NextAvail == CallIsProfessorAvailable

SpecAvail == InitAvail /\ [][NextAvail]_vars

----------------------------------------------------------------------------
(* createJuryComposition on every professor list                           *)

\* What a professor of the lists is: <<title, university, km, lastDate>>.
\* Professors and associate professors of the home university U1 and of U2,
\* at the distance cap (100 km) and just beyond it, with no earlier
\* participation; a professor who took part the day before the target date;
\* and one whose title is neither of the two.
Profiles ==
    ({"professor", "docent"} \X {"U1", "U2"} \X {100, 101} \X {Null})
    \cup {<<"professor", "U2", 100, Some("2023-07-20")>>}
    \cup {<<"asistent", "U2", 100, Null>>}

\* The professor lists of length n, ids 1..n.
ProfessorLists(n) ==
    {[i \in 1..n |-> Professor(i, f[i][1], f[i][2], f[i][3], 0, f[i][4])] :
        f \in [1..n -> Profiles]}

\* Professor 1 on three procedures within two days.
ThreeInARow ==
    <<Procedure(1, "2023-07-20", Some(1), Null, Null),
      Procedure(2, "2023-07-20", Null, Null, Some(1)),
      Procedure(3, "2023-07-21", Some(1), Some(2), Null)>>

InitJury ==
    /\ \E n \in 0..MaxProfessors : professors \in ProfessorLists(n)
    /\ procedures \in {<< >>, ThreeInARow}
    /\ targetDate = "2023-07-21"
    /\ \E professorCount \in 0..MaxProfessorCount,
          associateProfessorCount \in 0..MaxAssociateProfessorCount :
           requirements = Requirements(professorCount, associateProfessorCount, 3, 30, 100)
    /\ homeUniversity = "U1"
    /\ availability = Null
    /\ consecutive = Null
    /\ composition = Null
    /\ NothingElseReturned

CallCreateJuryComposition ==
    /\ composition' = Some(createJuryComposition(professors, procedures, targetDate,
                                                  requirements, homeUniversity))
    /\ procedures' = ProceduresAfterEach(professors, targetDate, requirements, procedures)
    /\ UNCHANGED <<professors, targetDate, requirements, homeUniversity,
                   availability, consecutive, days, history, workload, sortedList, available, collaborators>>

NextJury == CallCreateJuryComposition

SpecJury == InitJury /\ [][NextJury]_vars

----------------------------------------------------------------------------
(* createJuryComposition on professor lists whose ids may repeat: neither  *)
(* parseProfessorsCsv nor createJuryComposition looks for a repeated id    *)

\* The professor lists of length n with every id 1 or 2: available
\* professors and associate professors of U1 and U2.
ProfessorListsAnyIds(n) ==
    {[i \in 1..n |-> Professor(f[i][1], f[i][2], f[i][3], 100, 0, Null)] :
        f \in [1..n -> {1, 2} \X {"professor", "docent"} \X {"U1", "U2"}]}

InitJuryAnyIds ==
    /\ \E n \in 0..MaxProfessors : professors \in ProfessorListsAnyIds(n)
    /\ procedures = << >>
    /\ targetDate = "2023-07-21"
    /\ \E professorCount \in 0..MaxProfessorCount,
          associateProfessorCount \in 0..MaxAssociateProfessorCount :
           requirements = Requirements(professorCount, associateProfessorCount, 3, 30, 100)
    /\ homeUniversity = "U1"
    /\ availability = Null
    /\ consecutive = Null
    /\ composition = Null
    /\ NothingElseReturned

SpecJuryAnyIds == InitJuryAnyIds /\ [][NextJury]_vars

----------------------------------------------------------------------------
(* createJuryComposition on the inputs at the edge: no professor, no       *)
(* procedure, nobody eligible, dates that do not parse                     *)

\* What a professor of these lists is: <<title, lastDate>>.  A professor with
\* no earlier participation, one who took part the day before the target
\* date and one whose lastDate is not a date; an associate professor with no
\* earlier participation and one whose lastDate is not a date.
EdgeProfiles ==
    ({"professor"} \X {Null, Some("2023-07-20"), Some(InvalidDate)})
    \cup ({"docent"} \X {Null, Some(InvalidDate)})

EdgeProfessorLists(n) ==
    {[i \in 1..n |-> Professor(i, f[i][1], "U2", 100, 0, f[i][2])] :
        f \in [1..n -> EdgeProfiles]}

\* Professor 1 on two procedures, the date of one of them not a date
\* (parseProceduresCsv keeps such a row with a warning).
WithInvalidDate ==
    <<Procedure(1, "2023-07-20", Some(1), Null, Null),
      Procedure(2, InvalidDate, Null, Null, Some(1))>>

InitJuryEdge ==
    /\ \E n \in 0..MaxProfessors : professors \in EdgeProfessorLists(n)
    /\ procedures \in {<< >>, ThreeInARow, WithInvalidDate}
    /\ targetDate \in {"2023-07-21", InvalidDate}
    /\ \E professorCount \in 0..MaxProfessorCount,
          associateProfessorCount \in 0..MaxAssociateProfessorCount :
           requirements = Requirements(professorCount, associateProfessorCount, 3, 30, 100)
    /\ homeUniversity = "U1"
    /\ availability = Null
    /\ consecutive = Null
    /\ composition = Null
    /\ NothingElseReturned

SpecJuryEdge == InitJuryEdge /\ [][NextJury]_vars

----------------------------------------------------------------------------
(* daysBetween on every pair of date strings, and isProfessorAvailable on  *)
(* target dates that parse and that do not                                 *)

\* The strings daysBetween is called with: the dates of the model, a string
\* that is not a date and the empty string.
DateStrings == DOMAIN EpochDay \cup {InvalidDate, ""}

InitDays ==
    /\ \E lastDate \in {Null, Some("2023-06-20")} :
           professors = <<Professor(1, "professor", "U1", 0, 0, lastDate)>>
    /\ procedures \in {<< >>, ThreeInARow}
    /\ targetDate \in {"2023-07-10", InvalidDate}
    /\ requirements = DefaultRequirements
    /\ homeUniversity = "U1"
    /\ availability = Null
    /\ consecutive = Null
    /\ composition = Null
    /\ NothingElseReturned

CallDaysBetween ==
    /\ \E date1, date2 \in DateStrings :
           days' = Some([date1 |-> date1, date2 |-> date2,
                         value |-> daysBetween(date1, date2)])
    /\ UNCHANGED <<professors, procedures, targetDate, requirements, homeUniversity,
                   availability, consecutive, composition, history, workload,
                   sortedList, available, collaborators>>

NextDays == CallDaysBetween \/ CallIsProfessorAvailable

SpecDays == InitDays /\ [][NextDays]_vars

----------------------------------------------------------------------------
(* getProfessorParticipationHistory on procedure lists whose dates may not *)
(* parse: parseProceduresCsv keeps a row with an invalid date              *)

InitHistory ==
    /\ professors = <<Professor(1, "professor", "U1", 0, 0, Null),
                      Professor(2, "docent", "U2", 100, 0, Null)>>
    /\ \E n \in 0..MaxProcedures :
           procedures \in ProcedureListsOver(n, ProcedureDates \cup {InvalidDate},
                              {<<Some(1), Null, Null>>, <<Null, Null, Some(1)>>,
                               <<Null, Some(2), Null>>})
    /\ targetDate = "2023-09-15"
    /\ requirements = DefaultRequirements
    /\ homeUniversity = "U1"
    /\ availability = Null
    /\ consecutive = Null
    /\ composition = Null
    /\ NothingElseReturned

CallGetProfessorParticipationHistory ==
    /\ \E i \in 1..Len(professors) :
           /\ history' = Some([professor |-> professors[i],
                               value |-> getProfessorParticipationHistory(professors[i],
                                                                          procedures)])
           /\ procedures' = ProceduresAfterHistory(professors[i], procedures)
    /\ UNCHANGED <<professors, targetDate, requirements, homeUniversity,
                   availability, consecutive, composition, days, workload,
                   sortedList, available, collaborators>>

NextHistory == CallGetProfessorParticipationHistory

SpecHistory == InitHistory /\ [][NextHistory]_vars

----------------------------------------------------------------------------
(* sortProfessors on professor lists with repeated keys, also on its own   *)
(* results                                                                 *)

\* ProfessorSortCriteria
SortCriteria == {"distance", "lastParticipation", "participationCount",
                 "scienceRating", "name"}

\* What a professor of these lists is: <<km, count, science, names,
\* lastDate>>.  Every key has two values that two profiles share; one
\* lastDate is absent and one is not a date (parseProfessorsCsv takes the
\* cell as it is).
SortProfiles ==
    {<<0, 5, 46, "Ivanov", Null>>,
     <<0, 0, 47, "Petrov", Some("2023-07-20")>>,
     <<100, 5, 47, "Ivanov", Some("2023-06-20")>>,
     <<100, 0, 46, "Petrov", Some(InvalidDate)>>}

\* The professor lists of length n over these profiles, ids 1..n.
SortProfessorLists(n) ==
    {[i \in 1..n |->
         [Professor(i, "professor", "U1", f[i][1], f[i][2], f[i][5])
             EXCEPT !.science = f[i][3], !.names = f[i][4]]] :
        f \in [1..n -> SortProfiles]}

InitSort ==
    /\ \E n \in 0..MaxProfessors : professors \in SortProfessorLists(n)
    /\ procedures = << >>
    /\ targetDate = "2023-09-15"
    /\ requirements = DefaultRequirements
    /\ homeUniversity = "U1"
    /\ availability = Null
    /\ consecutive = Null
    /\ composition = Null
    /\ NothingElseReturned

\* sortProfessors called on the caller's professors, or on the list the last
\* call returned.  sameKey records that every sort since the caller's
\* professors used the criteria of this call.
CallSortProfessors ==
    \E criteria \in SortCriteria, ascending \in BOOLEAN, again \in BOOLEAN :
        /\ again => sortedList # Null
        /\ LET input == IF again THEN sortedList[1].value ELSE professors
           IN  /\ sortedList' =
                      Some([input |-> input, criteria |-> criteria, ascending |-> ascending,
                            sameKey |-> again => (/\ sortedList[1].sameKey
                                                  /\ sortedList[1].criteria = criteria),
                            value |-> sortProfessors(input, criteria, ascending)])
               /\ professors' = IF again THEN professors
                                ELSE ProfessorsAfterSort(professors, criteria, ascending)
        /\ UNCHANGED <<procedures, targetDate, requirements, homeUniversity,
                       availability, consecutive, composition, days, history,
                       workload, available, collaborators>>

NextSort == CallSortProfessors

SpecSort == InitSort /\ [][NextSort]_vars

----------------------------------------------------------------------------
(* getAvailableProfessors under every filter                               *)

\* The filters: none, or a ProfessorFilter in which each criterion is given
\* or not; the university may be given as the empty string, the excluded
\* ids as the empty list.
Filters ==
    {NoFilter} \cup
    {Some([title |-> title, university |-> university,
           minScienceRating |-> minScienceRating, maxScienceRating |-> maxScienceRating,
           maxDistance |-> maxDistance, excludeIds |-> excludeIds]) :
        title \in {Null, Some("professor")},
        university \in {Null, Some("U1"), Some("")},
        minScienceRating \in {Null, Some(47)},
        maxScienceRating \in {Null, Some(47)},
        maxDistance \in {Null, Some(100)},
        excludeIds \in {Null, Some({1}), Some({})}}

\* What a professor of these lists is: <<title, university, science, km>>,
\* on, below and above the rating 4.7 and the distance 100.
FilterProfiles ==
    {<<"professor", "U1", 47, 100>>,
     <<"docent", "U1", 46, 101>>,
     <<"professor", "U2", 48, 100>>}

\* The professor lists of length n over these profiles, ids 1..n.
FilterProfessorLists(n) ==
    {[i \in 1..n |->
         [Professor(i, f[i][1], f[i][2], f[i][4], 0, Null) EXCEPT !.science = f[i][3]]] :
        f \in [1..n -> FilterProfiles]}

InitFilter ==
    /\ \E n \in 0..MaxProfessors : professors \in FilterProfessorLists(n)
    /\ procedures = ThreeInARow
    /\ targetDate = "2023-09-15"
    /\ requirements = DefaultRequirements
    /\ homeUniversity = "U1"
    /\ availability = Null
    /\ consecutive = Null
    /\ composition = Null
    /\ NothingElseReturned

CallGetAvailableProfessors ==
    /\ \E filter \in Filters :
           /\ available' = Some([filter |-> filter,
                                 value |-> getAvailableProfessors(professors, targetDate,
                                               requirements, procedures, filter)])
           /\ procedures' = ProceduresAfterEach(ApplyFilter(professors, filter), targetDate,
                                                requirements, procedures)
    /\ UNCHANGED <<professors, targetDate, requirements, homeUniversity,
                   availability, consecutive, composition, days, history,
                   workload, sortedList, collaborators>>

NextFilter == CallGetAvailableProfessors

SpecFilter == InitFilter /\ [][NextFilter]_vars

----------------------------------------------------------------------------
(* The functions called one after the other, in any order, on the lists    *)
(* the caller holds                                                        *)

\* Two professors at the same distance, the second with the larger count,
\* and an associate professor.
CoreProfessors ==
    <<Professor(1, "professor", "U1", 100, 0, Null),
      Professor(2, "professor", "U2", 100, 5, Null),
      Professor(3, "docent", "U1", 0, 0, Null)>>

\* Three procedures listed newest first.
NewestFirst ==
    <<Procedure(1, "2023-07-21", Some(1), Null, Null),
      Procedure(2, "2023-07-20", Some(2), Null, Some(1)),
      Procedure(3, "2023-06-20", Null, Some(2), Some(1))>>

InitCore ==
    /\ professors \in {CoreProfessors, SubSeq(CoreProfessors, 1, 2)}
    /\ procedures \in {<< >>, NewestFirst}
    /\ targetDate = "2023-09-15"
    /\ requirements = Requirements(1, 1, 3, 30, 100)
    /\ homeUniversity = "U1"
    /\ availability = Null
    /\ consecutive = Null
    /\ composition = Null
    /\ NothingElseReturned

NextCore ==
    \/ CallCreateJuryComposition
    \/ CallIsProfessorAvailable
    \/ CallCalculateConsecutiveParticipations
    \/ CallGetProfessorParticipationHistory
    \/ CallSortProfessors

SpecCore == InitCore /\ [][NextCore]_vars

----------------------------------------------------------------------------
(* calculateProfessorWorkload on procedure lists around a year end, in     *)
(* processes of several time zones                                         *)

\* How far, in seconds, the local time of the process is ahead of UTC: five
\* hours behind, UTC, two hours ahead.
TimeZoneOffsets == {0 - 5 * 60 * 60, 0, 2 * 60 * 60}

\* The dates of the procedures: the last day of 2022, the first of 2023 and
\* two days in the summer of 2023.
WorkloadDates == {"2022-12-31", "2023-01-01", "2023-06-20", "2023-07-21"}

InitWorkload ==
    /\ professors = <<Professor(1, "professor", "U1", 0, 0, Null)>>
    /\ \E n \in 0..MaxProcedures :
           procedures \in ProcedureListsOver(n, WorkloadDates,
                              {<<Some(1), Null, Null>>, <<Null, Some(2), Null>>})
    /\ targetDate = "2023-09-15"
    /\ requirements = DefaultRequirements
    /\ homeUniversity = "U1"
    /\ availability = Null
    /\ consecutive = Null
    /\ composition = Null
    /\ NothingElseReturned

CallCalculateProfessorWorkload ==
    /\ \E i \in 1..Len(professors), year \in {Null, Some(2022), Some(2023)},
          offset \in TimeZoneOffsets :
           /\ workload' = Some([professor |-> professors[i], year |-> year,
                                offset |-> offset,
                                value |-> calculateProfessorWorkload(professors[i], procedures,
                                                                     year, offset)])
           /\ procedures' = ProceduresAfterHistory(professors[i], procedures)
    /\ UNCHANGED <<professors, targetDate, requirements, homeUniversity,
                   availability, consecutive, composition, days, history,
                   sortedList, available, collaborators>>

NextWorkload == CallCalculateProfessorWorkload

SpecWorkload == InitWorkload /\ [][NextWorkload]_vars

----------------------------------------------------------------------------
(* calculateConsecutiveParticipations while the procedure list grows,      *)
(* procedure by procedure                                                  *)

\* The dates of the procedures that are added: 170, 30, 1 and 56 days from
\* one to the next.
GrowDates == {"2023-01-01", "2023-06-20", "2023-07-20", "2023-07-21", "2023-09-15"}

InitGrow ==
    /\ professors = <<Professor(1, "professor", "U1", 0, 0, Null)>>
    /\ procedures = << >>
    /\ targetDate = "2023-09-15"
    /\ requirements = DefaultRequirements
    /\ homeUniversity = "U1"
    /\ availability = Null
    /\ consecutive = Null
    /\ composition = Null
    /\ NothingElseReturned

\* One more procedure in the list: procedures.push(procedure).
AddProcedure ==
    /\ Len(procedures) < MaxProcedures
    /\ \E date \in GrowDates, m \in {<<Some(1), Null, Null>>, <<Null, Some(2), Null>>} :
           procedures' = Append(procedures,
                                Procedure(Len(procedures) + 1, date, m[1], m[2], m[3]))
    /\ UNCHANGED <<professors, targetDate, requirements, homeUniversity,
                   availability, consecutive, composition, days, history, workload,
                   sortedList, available, collaborators>>

NextGrow == AddProcedure \/ CallCalculateConsecutiveParticipations

SpecGrow == InitGrow /\ [][NextGrow]_vars

----------------------------------------------------------------------------
(* Claims about isProfessorAvailable (SpecAvail)                           *)

\* The template literal `reason` has the piece `piece`.
Cites(reason, piece) == \E i \in 1..Len(reason) : reason[i] = piece

\* The cooldown rule fires for the professor of the last call.
CooldownCase(p) ==
    /\ p.lastDate # Null
    /\ NumLT(daysBetween(p.lastDate[1], targetDate),
             requirements.minDaysBetweenParticipations)

\* The cooldown rule does not fire: no lastDate, or a gap of at least the minimum.
NoCooldownCase(p) ==
    \/ p.lastDate = Null
    \/ NumGE(daysBetween(p.lastDate[1], targetDate),
             requirements.minDaysBetweenParticipations)

\* C1: whenever the professor's lastDate is present and
\* daysBetween(lastDate, targetDate) < minDaysBetweenParticipations, the
\* verdict is unavailable and its reason cites the actual gap and the
\* required minimum, whatever the procedure list and the streak are.
C1_CooldownWins ==
    availability # Null =>
        LET r == availability[1]
            p == r.professor
        IN  CooldownCase(p) =>
                /\ r.isAvailable = FALSE
                /\ Cites(r.reason, ToString(daysBetween(p.lastDate[1], targetDate)))
                /\ Cites(r.reason, ToString(requirements.minDaysBetweenParticipations))

\* The scenario of the spec (2023-06-20 to 2023-07-10, minimum 30) on a
\* professor whose streak has also reached the cap: rejected citing 20 and 30.
C1_Witness ==
    /\ availability # Null
    /\ CooldownCase(availability[1].professor)
    /\ calculateConsecutiveParticipations(availability[1].professor, procedures)
           >= requirements.maxConsecutiveParticipations
    /\ availability[1].isAvailable = FALSE
    /\ Cites(availability[1].reason, "20")
    /\ Cites(availability[1].reason, "30")

\* C2: when the cooldown rule does not fire, the verdict is unavailable
\* exactly when the streak is at least maxConsecutiveParticipations; a
\* professor with no lastDate and streak 0 is available.
C2_StreakDecides ==
    availability # Null =>
        LET r == availability[1]
            p == r.professor
            streak == calculateConsecutiveParticipations(p, procedures)
        IN  NoCooldownCase(p) =>
                /\ r.isAvailable = FALSE <=>
                       streak >= requirements.maxConsecutiveParticipations
                /\ (p.lastDate = Null /\ streak = 0) => r.isAvailable = TRUE

\* A professor past the cooldown (87 days for a minimum of 30) rejected for a
\* streak exactly equal to the cap.
C2_Witness ==
    /\ availability # Null
    /\ availability[1].professor.lastDate # Null
    /\ requirements.minDaysBetweenParticipations = 30
    /\ NoCooldownCase(availability[1].professor)
    /\ calculateConsecutiveParticipations(availability[1].professor, procedures)
           = requirements.maxConsecutiveParticipations
    /\ availability[1].isAvailable = FALSE

----------------------------------------------------------------------------
(* Claims about calculateConsecutiveParticipations (SpecStreak)            *)

\* The indexes of the procedures that hold the professor's id in a slot.
ParticipationIndexes(p, procs) ==
    {i \in 1..Len(procs) :
        Some(p.id) \in {procs[i].m1, procs[i].m2, procs[i].m3, procs[i].m4,
                        procs[i].m5, procs[i].m6, procs[i].m7}}

\* The day numbers of the professor's participations in ascending order.
AscendingDays(p, procs) ==
    LET H == ParticipationIndexes(p, procs)
        n == Cardinality(H)
        dayNumbers == {EpochDay[d] : d \in ProcedureDates}
    IN  CHOOSE s \in [1..n -> dayNumbers] :
            /\ \A j \in 1..(n - 1) : s[j] <= s[j + 1]
            /\ \A d \in dayNumbers :
                   Cardinality({j \in 1..n : s[j] = d})
                       = Cardinality({i \in H : EpochDay[procs[i].date] = d})

\* The length of the newest unbroken chain of an ascending list of days: the
\* k newest entries are pairwise at most 30 days from their neighbour and
\* the entry before them, if any, is more than 30 days older.
NewestChain(s) ==
    LET n == Len(s)
    IN  CHOOSE k \in 1..n :
            /\ \A j \in (n - k + 1)..(n - 1) : s[j + 1] - s[j] <= 30
            /\ k = n \/ s[n - k + 1] - s[n - k] > 30

\* C3: calculateConsecutiveParticipations is 0 for a professor with no
\* participation and otherwise the length of the newest chain of the
\* date-ascending history whose adjacent gaps are at most 30 days; it reads
\* neither the requirements nor the professor's count.
C3_NewestChain ==
    consecutive # Null =>
        LET r == consecutive[1]
        IN  r.count = IF ParticipationIndexes(r.professor, procedures) = {} THEN 0
                      ELSE NewestChain(AscendingDays(r.professor, procedures))

\* Three participations whose oldest lies 31 days before the next: streak 2,
\* not 3, for a professor whose count field is 5.
C3_Witness ==
    /\ consecutive # Null
    /\ Cardinality(ParticipationIndexes(consecutive[1].professor, procedures)) = 3
    /\ consecutive[1].professor.count = 5
    /\ consecutive[1].count = 2

----------------------------------------------------------------------------
(* Claims about createJuryComposition (SpecJury)                           *)

\* The indexes of the professors of title `rank` that isProfessorAvailable
\* finds available: the eligible pool of the rank.
EligiblePool(rank) ==
    {i \in 1..Len(professors) :
        /\ professors[i].title = rank
        /\ isProfessorAvailable(professors[i], targetDate, requirements,
                                procedures).isAvailable}

\* The place of professor i in its pool ordered by ascending km, professors
\* of equal km in list order.
PlaceByDistance(i, pool) ==
    1 + Cardinality({j \in pool : \/ professors[j].km < professors[i].km
                                  \/ /\ professors[j].km = professors[i].km
                                     /\ j < i})

Min(a, b) == IF a < b THEN a ELSE b

\* `selected` is the first min(size of the pool, quota) of the pool by
\* ascending distance.
IsClosestOf(selected, pool, quota) ==
    /\ Len(selected) = Min(Cardinality(pool), quota)
    /\ \A i \in pool :
           PlaceByDistance(i, pool) <= Len(selected) =>
               selected[PlaceByDistance(i, pool)] = professors[i]
    /\ \A i \in pool :
           (\A k \in 1..Len(selected) : selected[k] # professors[i]) =>
               \A k \in 1..Len(selected) : professors[i].km >= selected[k].km
    /\ Cardinality(pool) < quota =>
           \A i \in pool : \E k \in 1..Len(selected) : selected[k] = professors[i]

\* C4: for each rank the selected list is the first min(size of the
\* eligible rank pool, quota) entries of the pool sorted ascending by km: no
\* eligible candidate left out is closer than a selected one, and a pool
\* smaller than the quota is selected whole.
C4_ClosestFirst ==
    composition # Null =>
        LET c == composition[1]
        IN  /\ IsClosestOf(c.professors, EligiblePool("professor"),
                           requirements.professorCount)
            /\ IsClosestOf(c.associateProfessors, EligiblePool("docent"),
                           requirements.associateProfessorCount)

\* Two eligible professors listed farthest first, quota 1: the closer one,
\* second in the list, is the one selected.
C4_Witness ==
    /\ composition # Null
    /\ requirements.professorCount = 1
    /\ Cardinality(EligiblePool("professor")) = 2
    /\ \E i \in EligiblePool("professor") :
           /\ \E j \in EligiblePool("professor") :
                  j < i /\ professors[j].km > professors[i].km
           /\ composition[1].professors = <<professors[i]>>

\* The records of a list, as a set.
Range(list) == {list[k] : k \in 1..Len(list)}

\* C5: the selected professors all have title professor, the selected
\* associate professors all have title docent, every selected member is one
\* isProfessorAvailable finds available, and a professor of another title is
\* in neither list.
C5_RankAndAvailability ==
    composition # Null =>
        LET c == composition[1]
        IN  /\ \A p \in Range(c.professors) : p.title = "professor"
            /\ \A p \in Range(c.associateProfessors) : p.title = "docent"
            /\ \A p \in Range(c.professors) \cup Range(c.associateProfessors) :
                   /\ p \in Range(professors)
                   /\ isProfessorAvailable(p, targetDate, requirements, procedures).isAvailable
            /\ \A p \in Range(professors) :
                   p.title \notin {"professor", "docent"} =>
                       p \notin Range(c.professors) \cup Range(c.associateProfessors)

\* A list with a professor in cooldown, a professor of another title and an
\* available professor, with a quota that is not met: only the available
\* one is selected.
C5_Witness ==
    /\ composition # Null
    /\ \E p \in Range(professors) :
           /\ p.title = "professor"
           /\ ~isProfessorAvailable(p, targetDate, requirements, procedures).isAvailable
    /\ \E p \in Range(professors) : p.title = "asistent"
    /\ requirements.professorCount = 2
    /\ Len(composition[1].professors) = 1

\* The errors entries that start with `text`.
EntriesOf(entries, text) == SelectSeq(entries, LAMBDA e : e[1] = text)

\* The errors have one entry for the rank, citing pool size and quota, when
\* the rank is short, and none otherwise.
ShortfallReported(c, text, selected, pool, quota) ==
    LET entries == EntriesOf(c.errors, text)
    IN  /\ Len(entries) > 0 <=> Len(selected) < quota
        /\ Len(entries) > 0 <=> Cardinality(pool) < quota
        /\ Len(entries) <= 1
        /\ \A k \in 1..Len(entries) :
               entries[k] = <<text, ToString(Cardinality(pool)), "/", ToString(quota)>>

\* C6: for each rank an errors entry is emitted exactly when the selected
\* count of the rank is below the required count, which is exactly when the
\* eligible pool is smaller than the quota, and the entry cites pool size
\* and quota; errors holds nothing else.
C6_ShortfallErrors ==
    composition # Null =>
        LET c == composition[1]
            forProfessors == "Insufficient professors available: "
            forAssociates == "Insufficient associate professors available: "
        IN  /\ ShortfallReported(c, forProfessors, c.professors,
                                 EligiblePool("professor"), requirements.professorCount)
            /\ ShortfallReported(c, forAssociates, c.associateProfessors,
                                 EligiblePool("docent"), requirements.associateProfessorCount)
            /\ Len(c.errors) = Len(EntriesOf(c.errors, forProfessors))
                                  + Len(EntriesOf(c.errors, forAssociates))

\* The scenario of the spec: one eligible professor for a quota of three
\* gives one selected professor and the error 1/3, while the associate
\* professors meet their quota and have no entry.
C6_Witness ==
    /\ composition # Null
    /\ Cardinality(EligiblePool("professor")) = 1
    /\ requirements.professorCount = 3
    /\ requirements.associateProfessorCount = 1
    /\ Len(composition[1].professors) = 1
    /\ composition[1].errors = << <<"Insufficient professors available: ", "1", "/", "3">> >>

\* C7: the number of selected professors is at most professorCount and the
\* number of selected associate professors at most associateProfessorCount.
C7_WithinQuota ==
    composition # Null =>
        /\ Len(composition[1].professors) <= requirements.professorCount
        /\ Len(composition[1].associateProfessors) <= requirements.associateProfessorCount

\* Three eligible professors for a quota of two: two are selected.
C7_Witness ==
    /\ composition # Null
    /\ Cardinality(EligiblePool("professor")) = 3
    /\ requirements.professorCount = 2
    /\ Len(composition[1].professors) = 2

\* C8: allMembers is professors followed by associateProfessors.
C8_AllMembers ==
    composition # Null =>
        LET c == composition[1]
        IN  /\ Len(c.allMembers) = Len(c.professors) + Len(c.associateProfessors)
            /\ \A k \in 1..Len(c.professors) : c.allMembers[k] = c.professors[k]
            /\ \A k \in 1..Len(c.associateProfessors) :
                   c.allMembers[Len(c.professors) + k] = c.associateProfessors[k]

\* A composition with members of both ranks, the associate professor listed
\* before the professors in the input.
C8_Witness ==
    /\ composition # Null
    /\ professors # << >> /\ professors[1].title = "docent"
    /\ Len(composition[1].professors) = 2
    /\ Len(composition[1].associateProfessors) = 1
    /\ Len(composition[1].allMembers) = 3

\* The ids of the members of a list.
Ids(list) == {list[k].id : k \in 1..Len(list)}

\* `part` is `whole` without the members whose being of the home university
\* differs from `internal`, order kept.
RECURSIVE IsSideOf(_, _, _)
IsSideOf(part, whole, internal) ==
    IF whole = << >> THEN part = << >>
    ELSE IF (Head(whole).university = homeUniversity) = internal
         THEN /\ part # << >>
              /\ Head(part) = Head(whole)
              /\ IsSideOf(Tail(part), Tail(whole), internal)
         ELSE IsSideOf(part, Tail(whole), internal)

\* internalMembers is the members of allMembers of the home university,
\* externalMembers the others, and together they are as many as allMembers.
PartitionsAllMembers(c) ==
    /\ IsSideOf(c.internalMembers, c.allMembers, TRUE)
    /\ IsSideOf(c.externalMembers, c.allMembers, FALSE)
    /\ Len(c.internalMembers) + Len(c.externalMembers) = Len(c.allMembers)

\* The ids of the input professor list are pairwise distinct.
DistinctIds ==
    \A i, j \in 1..Len(professors) : professors[i].id = professors[j].id => i = j

\* C9 as claimed: for arbitrary inputs internalMembers and externalMembers
\* partition allMembers by university = homeUniversity, the two lengths
\* add up to that of allMembers, and no professor id is in both lists.
C9_Original ==
    composition # Null =>
        /\ PartitionsAllMembers(composition[1])
        /\ Ids(composition[1].internalMembers) \cap Ids(composition[1].externalMembers) = {}

\* C9: for arbitrary inputs internalMembers and externalMembers partition
\* allMembers by university = homeUniversity and the two lengths add up to
\* that of allMembers; no professor id is in both lists when the ids of the
\* input professors are pairwise distinct.
C9_InternalExternal ==
    composition # Null =>
        /\ PartitionsAllMembers(composition[1])
        /\ DistinctIds =>
               Ids(composition[1].internalMembers) \cap Ids(composition[1].externalMembers) = {}

\* Two professors of distinct ids, one of the home university and one not,
\* both selected: one internal member and one external member.
C9_Witness ==
    /\ composition # Null
    /\ DistinctIds
    /\ Len(composition[1].internalMembers) = 1
    /\ Len(composition[1].externalMembers) = 1
    /\ Len(composition[1].allMembers) = 2

\* C10: there is a warning exactly when an external member is farther than
\* maxDistanceForExternal, there is at most one, it cites the number of
\* such members, and internal members beyond the cap cause none.
C10_DistanceWarning ==
    composition # Null =>
        LET c == composition[1]
            distant == {k \in 1..Len(c.allMembers) :
                           /\ c.allMembers[k].university # homeUniversity
                           /\ c.allMembers[k].km > requirements.maxDistanceForExternal}
        IN  /\ Len(c.warnings) > 0 <=> distant # {}
            /\ Len(c.warnings) <= 1
            /\ \A k \in 1..Len(c.warnings) :
                   c.warnings[k][1] = ToString(Cardinality(distant))

\* An internal member beyond the cap and an external member at the cap:
\* no warning.
C10_Witness ==
    /\ composition # Null
    /\ \E p \in Range(composition[1].internalMembers) :
           p.km > requirements.maxDistanceForExternal
    /\ \E p \in Range(composition[1].externalMembers) :
           p.km = requirements.maxDistanceForExternal
    /\ composition[1].warnings = << >>

----------------------------------------------------------------------------
(* Claims about createJuryComposition at the edge (SpecJuryEdge)           *)

\* The fields of a JuryComposition.
JuryCompositionFields ==
    {"professors", "associateProfessors", "externalMembers", "internalMembers",
     "allMembers", "errors", "warnings"}

\* The errors hold an entry that starts with `text`.
HasEntry(c, text) == \E k \in 1..Len(c.errors) : c.errors[k][1] = text

\* C11: createJuryComposition never aborts: for every input (empty
\* professor list, empty procedure list, no eligible candidate, quotas larger
\* than the pool, a target date or a lastDate that does not parse) the call
\* returns a JuryComposition with all its fields, its members taken from the
\* input, possibly under quota, in which every rank that is short has an
\* errors entry.
C11_NeverAborts ==
    composition # Null =>
        LET c == composition[1]
        IN  /\ DOMAIN c = JuryCompositionFields
            /\ Range(c.allMembers) \subseteq Range(professors)
            /\ Len(c.professors) < requirements.professorCount =>
                   HasEntry(c, "Insufficient professors available: ")
            /\ Len(c.associateProfessors) < requirements.associateProfessorCount =>
                   HasEntry(c, "Insufficient associate professors available: ")

\* A target date that does not parse and a professor list whose only
\* professor has reached the streak cap: nobody is eligible, and the empty
\* composition comes with an entry for each rank.
C11_Witness ==
    /\ composition # Null
    /\ targetDate = InvalidDate
    /\ Len(professors) = 1
    /\ requirements.professorCount > 0
    /\ requirements.associateProfessorCount > 0
    /\ composition[1].allMembers = << >>
    /\ Len(composition[1].errors) = 2

----------------------------------------------------------------------------
(* Claims about daysBetween (SpecDays)                                     *)

\* The string parses to a date.
Parses(s) == ~isNaN(Date_getTime(s))

\* C12: daysBetween fails with an InvalidDate error whenever one of its two
\* inputs does not parse to a valid calendar date, and isProfessorAvailable
\* asked about a target date that does not parse fails rather than producing
\* a verdict: a call that has returned a value had dates that parse.
C12_InvalidDateFails ==
    /\ days # Null => Parses(days[1].date1) /\ Parses(days[1].date2)
    /\ availability # Null => Parses(targetDate)

\* C13: for all valid calendar dates a and b, daysBetween(a, b) is
\* non-negative, equal to daysBetween(b, a), zero exactly when a and b are
\* the same date, and equal to |day(b) - day(a)|.
C13_CalendarDays ==
    days # Null =>
        LET a == days[1].date1
            b == days[1].date2
            value == days[1].value
        IN  (Parses(a) /\ Parses(b)) =>
                /\ ~isNaN(value)
                /\ value >= 0
                /\ value = daysBetween(b, a)
                /\ value = 0 <=> a = b
                /\ value = IF EpochDay[b] >= EpochDay[a]
                           THEN EpochDay[b] - EpochDay[a]
                           ELSE EpochDay[a] - EpochDay[b]

\* The later date given first: 2023-07-20 and 2023-06-20 are 30 days apart.
C13_Witness ==
    /\ days # Null
    /\ days[1].date1 = "2023-07-20"
    /\ days[1].date2 = "2023-06-20"
    /\ days[1].value = 30

----------------------------------------------------------------------------
(* Claims about getProfessorParticipationHistory (SpecHistory)             *)

\* The history holds exactly the procedures with the professor's id in one
\* of their seven slots, each once (the ids of the procedures are distinct).
HoldsTheParticipations(h) ==
    /\ {h.value[k].id : k \in 1..Len(h.value)}
           = {procedures[i].id : i \in ParticipationIndexes(h.professor, procedures)}
    /\ Len(h.value) = Cardinality(ParticipationIndexes(h.professor, procedures))
    /\ Range(h.value) \subseteq Range(procedures)

\* The entries of the history that have a date are in ascending order of
\* date, entries of equal date in input order (a procedure's id is its place
\* in the input).
AscendingByDate(h) ==
    \A k, l \in 1..Len(h.value) :
        (k < l /\ Parses(h.value[k].date) /\ Parses(h.value[l].date)) =>
            \/ EpochDay[h.value[k].date] < EpochDay[h.value[l].date]
            \/ /\ EpochDay[h.value[k].date] = EpochDay[h.value[l].date]
               /\ h.value[k].id < h.value[l].id

----------------------------------------------------------------------------
(* Claims about sortProfessors (SpecSort)                                  *)

\* The key of a professor under a criteria, NaN when it has none (a
\* lastDate that does not parse); an absent lastDate is the earliest.
SortKey(p, criteria) ==
    CASE criteria = "distance" -> p.km
      [] criteria = "lastParticipation" ->
             IF p.lastDate = Null THEN 0
             ELSE IF Parses(p.lastDate[1]) THEN EpochDay[p.lastDate[1]] ELSE NaN
      [] criteria = "participationCount" -> p.count
      [] criteria = "scienceRating" -> p.science
      [] criteria = "name" -> CollationRank[p.names]

\* The place of the professor in the caller's list (ids are distinct).
PlaceInInput(p) == CHOOSE i \in 1..Len(professors) : professors[i].id = p.id

\* Of two professors that both have a key, the one listed first has the
\* smaller key (the larger one when descending), or the same key and the
\* earlier place in the caller's list.
InKeyOrder(r) ==
    \A k, l \in 1..Len(r.value) :
        LET a == SortKey(r.value[k], r.criteria)
            b == SortKey(r.value[l], r.criteria)
        IN  (k < l /\ ~isNaN(a) /\ ~isNaN(b)) =>
                \/ IF r.ascending THEN a < b ELSE a > b
                \/ a = b /\ PlaceInInput(r.value[k]) < PlaceInInput(r.value[l])

\* The list returned holds the professors of the caller's list, each once.
IsPermutation(r) ==
    /\ Len(r.value) = Len(professors)
    /\ Range(r.value) = Range(professors)

----------------------------------------------------------------------------
(* Claims about getAvailableProfessors (SpecFilter)                        *)

\* The professor satisfies every criterion the filter gives.  A title or a
\* university given as the empty string counts as not given.
Satisfies(p, filter) ==
    filter # Null =>
        LET f == filter[1]
        IN  /\ (f.title # Null /\ f.title # Some("")) => p.title = f.title[1]
            /\ (f.university # Null /\ f.university # Some("")) =>
                   p.university = f.university[1]
            /\ f.minScienceRating # Null => p.science >= f.minScienceRating[1]
            /\ f.maxScienceRating # Null => p.science <= f.maxScienceRating[1]
            /\ f.maxDistance # Null => p.km <= f.maxDistance[1]
            /\ f.excludeIds # Null => p.id \notin f.excludeIds[1]

\* C16: getAvailableProfessors returns one availability record per professor
\* that satisfies all the criteria present in the filter (exact title, exact
\* university, science >= minScienceRating, science <= maxScienceRating,
\* km <= maxDistance, id not in excludeIds), in input order, and none for any
\* other professor; an absent criterion removes nobody, and with no filter
\* every professor gets a record.
C16_Filter ==
    available # Null =>
        LET r == available[1]
            kept == {i \in 1..Len(professors) : Satisfies(professors[i], r.filter)}
        IN  /\ Len(r.value) = Cardinality(kept)
            /\ \A i \in kept :
                   r.value[1 + Cardinality({j \in kept : j < i})] =
                       isProfessorAvailable(professors[i], targetDate, requirements,
                                            procedures)
            /\ r.filter = NoFilter => Len(r.value) = Len(professors)

\* A filter with all six criteria given, on three professors: the first is
\* excluded by id, the second does not have the title, and the third, with
\* the rating at both limits and the distance at the limit, gets the record.
C16_Witness ==
    /\ available # Null
    /\ available[1].filter # NoFilter
    /\ available[1].filter[1].title = Some("professor")
    /\ available[1].filter[1].university = Some("U1")
    /\ available[1].filter[1].minScienceRating = Some(47)
    /\ available[1].filter[1].maxScienceRating = Some(47)
    /\ available[1].filter[1].maxDistance = Some(100)
    /\ available[1].filter[1].excludeIds = Some({1})
    /\ Len(professors) = 3
    /\ professors[1] = [professors[3] EXCEPT !.id = 1]
    /\ professors[2].title = "docent"
    /\ Len(available[1].value) = 1
    /\ available[1].value[1].professor = professors[3]

----------------------------------------------------------------------------
(* Claims about calls that follow one another (SpecCore)                   *)

----------------------------------------------------------------------------
(* Claims about calculateProfessorWorkload (SpecWorkload)                  *)

\* The year a date string names.
YearOf(s) ==
    IF EpochDay[s] < EpochDay["2023-01-01"] THEN 2022
    ELSE IF EpochDay[s] < EpochDay["2024-01-01"] THEN 2023
    ELSE 2024

\* The sum of the day gaps of the adjacent entries of a history.
RECURSIVE SumOfGaps(_)
SumOfGaps(h) ==
    IF Len(h) < 2 THEN 0
    ELSE SumOfGaps(SubSeq(h, 1, Len(h) - 1))
             + EpochDay[h[Len(h)].date] - EpochDay[h[Len(h) - 1].date]

\* C19: totalParticipations is the length of the professor's history;
\* participationsThisYear is the number of history entries dated in the
\* given year when a year is supplied and totalParticipations otherwise;
\* averageDaysBetweenParticipations is 0 for fewer than 2 entries and
\* otherwise the sum of the day gaps of consecutive entries divided by
\* (length - 1); lastParticipationDate is the date of the latest entry, or
\* empty when there is none.
C19_Workload ==
    workload # Null =>
        LET w == workload[1].value
            year == workload[1].year
            h == getProfessorParticipationHistory(workload[1].professor, procedures)
            average == w.averageDaysBetweenParticipations
        IN  /\ w.totalParticipations = Len(h)
            /\ w.participationsThisYear =
                   IF year # Null
                   THEN Cardinality({k \in 1..Len(h) : YearOf(h[k].date) = year[1]})
                   ELSE w.totalParticipations
            /\ IF Len(h) < 2 THEN average[1] = 0
               ELSE average[1] * (Len(h) - 1) = SumOfGaps(h) * average[2]
            /\ w.lastParticipationDate =
                   IF Len(h) = 0 THEN Null
                   ELSE Some(CHOOSE d \in {h[k].date : k \in 1..Len(h)} :
                                \A k \in 1..Len(h) : EpochDay[h[k].date] <= EpochDay[d])

----------------------------------------------------------------------------
(* Claims about the streak of a growing history (SpecGrow)                 *)

\* The days of the professor's participations.
ParticipationDays(p, procs) ==
    {EpochDay[procs[i].date] : i \in ParticipationIndexes(p, procs)}

\* The largest of a non-empty set of days.
Latest(D) == CHOOSE d \in D : \A e \in D : e <= d

\* The days of the most recent chain: those from which every step to the
\* next later day, up to the latest, is at most 30 days.
ChainDays(D) ==
    {d \in D : \A e \in D :
        (e >= d /\ e # Latest(D)) =>
            (CHOOSE x \in D : x > e /\ \A y \in D : y > e => x <= y) - e <= 30}

\* The step adds a participation of professor p on day d.
Adds(p, d) ==
    /\ Len(procedures') = Len(procedures) + 1
    /\ procedures' = Append(procedures, procedures'[Len(procedures')])
    /\ IsMember(procedures'[Len(procedures')], p)
    /\ d = EpochDay[procedures'[Len(procedures')].date]

\* C20: over any sequence of additions to a professor's history,
\* calculateConsecutiveParticipations does not decrease when the added
\* participation lies within 30 days of an entry of the current most recent
\* chain, and it is exactly 1 once the added participation is the newest
\* entry with a gap of more than 30 days to the entry before it.
C20_StreakGrows ==
    [][\A d \in {EpochDay[s] : s \in GrowDates} :
           LET p == professors[1]
               D == ParticipationDays(p, procedures)
               before == calculateConsecutiveParticipations(p, procedures)
               after == calculateConsecutiveParticipations(p, procedures')
           IN  (Adds(p, d) /\ D # {}) =>
                   /\ (\E c \in ChainDays(D) : d - c <= 30 /\ c - d <= 30) =>
                          after >= before
                   /\ d - Latest(D) > 30 => after = 1]_vars

\* A participation on 2023-07-20, one added 30 days before it, which makes
\* a chain of two, and one added 56 days after it: the streak then is 1.
C20_Witness ==
    /\ Len(procedures) = 3
    /\ \A i \in 1..3 : IsMember(procedures[i], professors[1])
    /\ procedures[1].date = "2023-07-20"
    /\ procedures[2].date = "2023-06-20"
    /\ procedures[3].date = "2023-09-15"
    /\ calculateConsecutiveParticipations(professors[1], SubSeq(procedures, 1, 2)) = 2
    /\ consecutive # Null
    /\ consecutive[1].count = 1

----------------------------------------------------------------------------
(* createJuryComposition on the pool of the documented scenario: three     *)
(* professors 0, 120 and 350 km away, two associate professors 5 and 10 km *)
(* away, in every order of the list                                        *)

\* The requirements of exampleJuryComposition.
ScenarioRequirements == Requirements(2, 2, 3, 30, 200)

\* The pool of the scenario: professors 1, 2 and 3 at 0, 120 and 350 km,
\* associate professors 4 and 5 at 5 and 10 km.
ScenarioMembers ==
    <<(<<"professor", "U1", 0>>), (<<"professor", "U2", 120>>),
      (<<"professor", "U3", 350>>), (<<"docent", "U2", 5>>),
      (<<"docent", "U3", 10>>)>>

\* The orders in which the five can stand in the list.
ScenarioOrders ==
    {f \in [1..5 -> 1..5] : \A i, j \in 1..5 : f[i] = f[j] => i = j}

\* Earlier procedures that leave everybody eligible on 2023-09-15: the
\* streak of professor 1 is 2, below the cap of 3.
ScenarioProcedures ==
    <<Procedure(1, "2023-06-20", Some(1), Some(2), Some(3)),
      Procedure(2, "2023-07-20", Some(4), Some(5), Some(1))>>

InitScenario ==
    /\ \E f \in ScenarioOrders, lastDate \in {Null, Some("2023-06-20")} :
           professors = [i \in 1..5 |->
                            Professor(f[i], ScenarioMembers[f[i]][1],
                                      ScenarioMembers[f[i]][2],
                                      ScenarioMembers[f[i]][3], 0, lastDate)]
    /\ procedures \in {<< >>, ScenarioProcedures}
    /\ targetDate = "2023-09-15"
    /\ requirements = ScenarioRequirements
    /\ homeUniversity = "U1"
    /\ availability = Null
    /\ consecutive = Null
    /\ composition = Null
    /\ NothingElseReturned

SpecScenario == InitScenario /\ [][NextJury]_vars

\* The distances of the members of a list, in its order.
Distances(list) == [k \in 1..Len(list) |-> list[k].km]

\* C21 as stated: in the scenario the professors at 0 and 120 km are
\* selected, and the composition has 1 internal member and 1 external
\* member, no errors and no warnings.
C21_Original ==
    composition # Null =>
        LET c == composition[1]
        IN  /\ Distances(c.professors) = <<0, 120>>
            /\ Len(c.internalMembers) = 1
            /\ Len(c.externalMembers) = 1
            /\ c.errors = << >>
            /\ c.warnings = << >>

\* C21 amended: in the scenario the professors at 0 and 120 km are selected,
\* one of them internal and one external; the composition has 1 internal
\* member (the professor at 0 km) and 3 external members (the professor at
\* 120 km and the two associate professors at 5 and 10 km), no errors and no
\* warnings.
C21_Scenario ==
    composition # Null =>
        LET c == composition[1]
        IN  /\ Distances(c.professors) = <<0, 120>>
            /\ Len(InternalOf(c.professors, homeUniversity)) = 1
            /\ Len(ExternalOf(c.professors, homeUniversity)) = 1
            /\ Distances(c.associateProfessors) = <<5, 10>>
            /\ Distances(c.internalMembers) = <<0>>
            /\ Distances(c.externalMembers) = <<120, 5, 10>>
            /\ c.errors = << >>
            /\ c.warnings = << >>

\* The composition of the scenario was made from a list that starts with the
\* farthest professor, with earlier procedures and earlier participations.
C21_Witness ==
    /\ composition # Null
    /\ professors[1].km = 350
    /\ procedures = ScenarioProcedures
    /\ professors[1].lastDate = Some("2023-06-20")
    /\ Len(composition[1].externalMembers) = 3

----------------------------------------------------------------------------
(* The fields of a ProfessorAvailability *)

\* C22: every ProfessorAvailability returned by isProfessorAvailable,
\* whatever the verdict, carries in consecutiveCount the streak that
\* calculateConsecutiveParticipations computes for that professor and
\* procedure list, and in lastParticipationDate the professor's lastDate.
C22_CarriesStreak ==
    availability # Null =>
        LET a == availability[1]
        IN  /\ a.consecutiveCount =
                   calculateConsecutiveParticipations(a.professor, procedures)
            /\ a.lastParticipationDate = a.professor.lastDate

----------------------------------------------------------------------------
(* The CSV texts of the model *)

\* The most rows of a CSV text.
MaxRows == 2

\* The most entries a log of the loader holds when a load starts.
MaxLogged == 2

ProfessorsHeader ==
    <<"ID", "Title", "Names", "Science", "University", "Km", "Count",
      "Pre-last date", "Last date">>

ProceduresHeader ==
    <<"ID", "Date", "Procedure", "M1", "M2", "M3", "M4", "M5", "M6", "M7">>

\* A professor line of nine cells.
ProfessorCells(id, title, science, km, count, lastDate) ==
    <<id, title, "N", science, "U2", km, count, "null", lastDate>>

\* A procedure line of ten cells with members in M1, M4 and M7.
ProcedureCells(id, date, type, m1, m4, m7) ==
    <<id, date, type, m1, "", "null", m4, "null", "", m7>>

\* Two lines that parse without a diagnostic.
ProfessorOne == ProfessorCells("1", "professor", "4.7", "0", "0", "null")

ProfessorTwo == ProfessorCells("2", "docent", "4.7", "100", "3", "2023-07-20")

\* A line whose title is out of the enumeration, and one whose distance is
\* not a number.
ProfessorBadTitle == ProfessorCells("3", "asistent", "4.7", "100", "0", "null")

ProfessorBadKm == ProfessorCells("3", "professor", "4.7", "abc", "0", "null")

ProcedureOne == ProcedureCells("1", "2023-06-20", "doktor", "1", "2", "null")

ProcedureBadType == ProcedureCells("2", "2023-07-20", "magistar", "1", "", "")

ProcedureBadDate == ProcedureCells("2", InvalidDate, "DN", "2", "", "")

\* The engine's variables, which the loader, the hook and the calendar leave
\* alone.
engine == <<professors, procedures, targetDate, requirements, homeUniversity,
            availability, consecutive, composition, days, history, workload,
            sortedList, available>>

\* The engine was not called and holds no data.
EngineIdle ==
    /\ professors = << >>
    /\ procedures = << >>
    /\ targetDate = "2023-09-15"
    /\ requirements = DefaultRequirements
    /\ homeUniversity = "U1"
    /\ availability = Null
    /\ consecutive = Null
    /\ composition = Null
    /\ days = Null
    /\ history = Null
    /\ workload = Null
    /\ sortedList = Null
    /\ available = Null

----------------------------------------------------------------------------
(* The JuryDataLoader under every sequence of loads and clears *)

\* The professor texts loaded: one row, another dataset of two rows, a valid
\* row followed by a row with a title out of the enumeration, and a row
\* that is kept with a warning.
LoaderProfessorTexts ==
    {<<ProfessorsHeader, ProfessorOne>>,
     <<ProfessorsHeader, ProfessorTwo, ProfessorOne>>,
     <<ProfessorsHeader, ProfessorTwo, ProfessorBadTitle>>,
     <<ProfessorsHeader, ProfessorBadKm>>}

LoaderProcedureTexts ==
    {<<ProceduresHeader, ProcedureOne>>,
     <<ProceduresHeader, ProcedureBadType, ProcedureOne>>,
     <<ProceduresHeader, ProcedureBadDate>>}

\* The files loaded: one that cannot be read, an empty one, and one of the
\* texts.
LoaderProfessorFiles ==
    {Null, Some(<<ProfessorsHeader, ProfessorTwo, ProfessorOne>>)}

LoaderProcedureFiles == {Some(EmptyText), Some(<<ProceduresHeader, ProcedureOne>>)}

\* A load starts while the logs are short.
LogsShort ==
    /\ Len(loader.loadErrors) < MaxLogged
    /\ Len(loader.loadWarnings) < MaxLogged

InitLoader ==
    /\ EngineIdle
    /\ parsed = Null
    /\ loader = NewJuryDataLoader
    /\ professorsResult = Null
    /\ proceduresResult = Null
    /\ hook = InitialHookState
    /\ pending = << >>
    /\ events = Null

CallLoadProfessorsFromCsv ==
    /\ LogsShort
    /\ \E csvContent \in LoaderProfessorTexts :
           /\ loader' = LoaderAfterProfessorsFromCsv(loader, csvContent)
           /\ professorsResult' = Some(ProfessorsFromCsvResult(csvContent))
    /\ UNCHANGED <<engine, parsed, proceduresResult, hook, pending, events>>

CallLoadProceduresFromCsv ==
    /\ LogsShort
    /\ \E csvContent \in LoaderProcedureTexts :
           /\ loader' = LoaderAfterProceduresFromCsv(loader, csvContent)
           /\ proceduresResult' = Some(ProceduresFromCsvResult(csvContent))
    /\ UNCHANGED <<engine, parsed, professorsResult, hook, pending, events>>

\* The loader changes only once the file was read: the call is one step.
CallLoadProfessorsFromFile ==
    /\ LogsShort
    /\ \E file \in LoaderProfessorFiles :
           /\ loader' = LoaderAfterProfessorsFromFile(loader, file)
           /\ professorsResult' = Some(ProfessorsFromFileResult(file))
    /\ UNCHANGED <<engine, parsed, proceduresResult, hook, pending, events>>

CallLoadProceduresFromFile ==
    /\ LogsShort
    /\ \E file \in LoaderProcedureFiles :
           /\ loader' = LoaderAfterProceduresFromFile(loader, file)
           /\ proceduresResult' = Some(ProceduresFromFileResult(file))
    /\ UNCHANGED <<engine, parsed, professorsResult, hook, pending, events>>

\* clear(); no load since the last clear has returned anything.
CallClear ==
    /\ loader' = NewJuryDataLoader
    /\ professorsResult' = Null
    /\ proceduresResult' = Null
    /\ UNCHANGED <<engine, parsed, hook, pending, events>>

NextLoader ==
    \/ CallLoadProfessorsFromCsv
    \/ CallLoadProceduresFromCsv
    \/ CallLoadProfessorsFromFile
    \/ CallLoadProceduresFromFile
    \/ CallClear

SpecLoader == InitLoader /\ [][NextLoader]_vars

\* C23: after any sequence of loads and clears the loader holds exactly the
\* data of the most recent professor load since the last clear and exactly
\* the data of the most recent procedure load; with no load since the last
\* clear the collections are empty, and so are both logs.
C23_ReplacedWholesale ==
    /\ professorsResult # Null => loader.professors = professorsResult[1].data
    /\ proceduresResult # Null => loader.procedures = proceduresResult[1].data
    /\ professorsResult = Null => loader.professors = << >>
    /\ proceduresResult = Null => loader.procedures = << >>
    /\ (professorsResult = Null /\ proceduresResult = Null) =>
           (loader.loadErrors = << >> /\ loader.loadWarnings = << >>)

----------------------------------------------------------------------------
(* The parsers on every text of up to MaxRows lines, and the history and   *)
(* the streak on what parseProceduresCsv gives                             *)

\* The id cell of the line in place k (the header is in place 1): the row
\* number, the row number followed by a letter, or no number at all.
IdCell(kind, k) ==
    CASE kind = "number" -> ToString(k - 1)
      [] kind = "prefix" -> ToString(k - 1) \o "x"
      [] OTHER -> "abc"

\* What a professor line is: <<id kind, title, rating, distance, count, last
\* date>>, a blank line or a line of two cells.
ProfessorShapes ==
    {<<"number", "professor", "4.7", "0", "0", "null">>,
     <<"number", "docent", "4.6", "100", "3", "2023-07-20">>,
     <<"text", "professor", "4.7", "100", "0", "null">>,
     <<"number", "asistent", "4.7", "100", "0", "null">>,
     <<"number", "professor", "abc", "100", "0", "null">>,
     <<"number", "docent", "5.2", "100", "0", "null">>,
     <<"number", "professor", "4.7", "abc", "0", "null">>,
     <<"number", "professor", "4.7", "-5", "x", "">>,
     <<"number", "professor", "4.7", "100", "0", InvalidDate>>,
     <<"prefix", "docent", "4.7", "100", "0", "">>,
     <<"blank">>, <<"short">>}

ProfessorRow(shape, k) ==
    CASE shape[1] = "blank" -> <<"">>
      [] shape[1] = "short" -> <<ToString(k - 1), "professor">>
      [] OTHER -> ProfessorCells(IdCell(shape[1], k), shape[2], shape[3],
                                 shape[4], shape[5], shape[6])

\* The professor texts of n lines after the header.
ProfessorTexts(n) ==
    {<<ProfessorsHeader>> \o [j \in 1..n |-> ProfessorRow(f[j], j + 1)] :
        f \in [1..n -> ProfessorShapes]}

\* What a procedure line is: <<id kind, date, type, M1, M4, M7>> (M2, M3, M5
\* and M6 are empty or 'null' in every line), a blank line or a line of two
\* cells.
ProcedureShapes ==
    {<<"number", "2023-06-20", "doktor", "", "null", "">>,
     <<"number", "2023-06-20", "docent", "1", "", "null">>,
     <<"number", "2023-07-20", "DN", "null", "0", "">>,
     <<"number", "2023-07-20", "professor", "", "2", "1">>,
     <<"number", "2023-07-21", "doktor", "abc", "", "">>,
     <<"number", InvalidDate, "doktor", "1", "", "">>,
     <<"number", "2023-07-20", "magistar", "1", "", "">>,
     <<"text", "2023-07-20", "doktor", "1", "", "">>,
     <<"prefix", "2023-07-21", "DN", "null", "null", "2">>,
     <<"blank">>, <<"short">>}

ProcedureRow(shape, k) ==
    CASE shape[1] = "blank" -> <<"">>
      [] shape[1] = "short" -> <<ToString(k - 1), "2023-06-20">>
      [] OTHER -> ProcedureCells(IdCell(shape[1], k), shape[2], shape[3],
                                 shape[4], shape[5], shape[6])

ProcedureTexts(n) ==
    {<<ProceduresHeader>> \o [j \in 1..n |-> ProcedureRow(f[j], j + 1)] :
        f \in [1..n -> ProcedureShapes]}

\* The professors whose history is asked for: ids 0, 1 and 2 (parseInt reads
\* the id 0 from the cell '0', and parseProfessorsCsv accepts it).
CsvProfessors ==
    <<Professor(0, "professor", "U1", 0, 0, Null),
      Professor(1, "professor", "U1", 0, 0, Null),
      Professor(2, "docent", "U2", 100, 0, Null)>>

InitCsv ==
    /\ professors = CsvProfessors
    /\ procedures = << >>
    /\ targetDate = "2023-09-15"
    /\ requirements = DefaultRequirements
    /\ homeUniversity = "U1"
    /\ availability = Null
    /\ consecutive = Null
    /\ composition = Null
    /\ NothingElseReturned

\* parseProfessorsCsv on a text; one text is parsed in a run.
CallParseProfessorsCsv ==
    /\ parsed = Null
    /\ \E n \in 0..MaxRows : \E csvContent \in ProfessorTexts(n) :
           parsed' = Some([of |-> "professors", csvContent |-> csvContent,
                           result |-> parseProfessorsCsv(csvContent)])
    /\ UNCHANGED <<engine, loader, professorsResult, proceduresResult, hook,
                   pending, events>>

\* parseProceduresCsv on a text, whose data the caller takes as its
\* procedures (exampleBasicUsage); one text is parsed in a run.
CallParseProceduresCsv ==
    /\ parsed = Null
    /\ \E n \in 0..MaxRows : \E csvContent \in ProcedureTexts(n) :
           /\ parsed' = Some([of |-> "procedures", csvContent |-> csvContent,
                              result |-> parseProceduresCsv(csvContent)])
           /\ procedures' = parseProceduresCsv(csvContent).data
    /\ UNCHANGED <<professors, targetDate, requirements, homeUniversity,
                   availability, consecutive, composition, days, history, workload,
                   sortedList, available, loader, professorsResult,
                   proceduresResult, hook, pending, events>>

NextCsv ==
    \/ CallParseProfessorsCsv
    \/ CallParseProceduresCsv
    \/ CallGetProfessorParticipationHistory
    \/ CallCalculateConsecutiveParticipations

SpecCsv == InitCsv /\ [][NextCsv]_vars

\* The member cells of a line: M1 to M7, as many as the line has.
MemberCells(columns) == {j \in 4..10 : j <= Len(columns)}

\* The cell is an empty member cell.
IsEmptyCell(cell) == cell = "" \/ cell = "null"

\* The line names professor p in one of its member cells.
Names(columns, p) ==
    \E j \in MemberCells(columns) :
        ~IsEmptyCell(columns[j]) /\ parseInt(columns[j]) = p.id

\* The line of the parsed text a procedure record was read from: its id is
\* the row number.
LineOf(proc) == parsed[1].csvContent[proc.id + 1]

\* The seven slots of a procedure record.
SlotsOf(proc) == <<proc.m1, proc.m2, proc.m3, proc.m4, proc.m5, proc.m6, proc.m7>>

\* C24: an empty member slot is never a professor id.  A procedure is in the
\* history of professor p, and counts for p's streak, only if one of its
\* member cells holds p's id; a procedure whose member cells are all empty or
\* 'null' is in nobody's history; and parseProceduresCsv turns an empty or
\* 'null' member cell into an empty slot, never into 0.
C24_EmptySlotIsNobody ==
    (parsed # Null /\ parsed[1].of = "procedures") =>
        /\ history # Null =>
               \A k \in 1..Len(history[1].value) :
                   Names(LineOf(history[1].value[k]), history[1].professor)
        /\ consecutive # Null =>
               consecutive[1].count <=
                   Cardinality({i \in 1..Len(procedures) :
                                   Names(LineOf(procedures[i]), consecutive[1].professor)})
        /\ \A i \in 1..Len(procedures) :
               \A j \in 4..10 :
                   (j > Len(LineOf(procedures[i])) \/ IsEmptyCell(LineOf(procedures[i])[j]))
                       => SlotsOf(procedures[i])[j - 3] = Null

\* The history and the streak of professor 0 were computed on a text with a
\* line whose member cells are all empty and a line that names professor 0.
C24_Witness ==
    /\ parsed # Null /\ parsed[1].of = "procedures"
    /\ history # Null /\ history[1].professor.id = 0
    /\ consecutive # Null /\ consecutive[1].professor.id = 0
    /\ Len(history[1].value) = 1
    /\ consecutive[1].count = 1
    /\ \E i \in 1..Len(procedures) :
           \A j \in 4..10 : IsEmptyCell(LineOf(procedures[i])[j])

----------------------------------------------------------------------------
(* isProfessorAvailable on professors whose preLastDate and count vary and *)
(* whose participations may be close to the target date                    *)

\* The values of lastDate and of preLastDate.
EarlierDates == {Null, Some("2023-06-20"), Some("2023-07-20")}

\* The values of count.
Counts == {0, 5}

InitCooldown ==
    /\ \E lastDate \in EarlierDates, preLastDate \in EarlierDates \ {Some("2023-06-20")},
          count \in Counts :
           professors = <<[Professor(1, "professor", "U1", 0, count, lastDate)
                              EXCEPT !.preLastDate = preLastDate]>>
    /\ \E n \in 0..MaxProcedures :
           procedures \in ProcedureListsOver(n, {"2023-06-20", "2023-07-20"},
                                             {<<Some(1), Null, Null>>,
                                              <<Null, Some(2), Null>>})
    /\ targetDate \in {"2023-07-21", "2023-09-15"}
    /\ \E maxConsecutive \in 1..MaxConsecutive, minDays \in {0, 30} :
           requirements = Requirements(3, 2, maxConsecutive, minDays, 100)
    /\ homeUniversity = "U1"
    /\ availability = Null
    /\ consecutive = Null
    /\ composition = Null
    /\ NothingElseReturned

SpecCooldown == InitCooldown /\ [][NextAvail]_vars

\* The verdict is a rejection by the cooldown rule.
RejectedByCooldown(a) ==
    /\ ~a.isAvailable
    /\ a.reason # Null
    /\ a.reason[1] = "Last participation was "

\* The verdict on the professor with other values of preLastDate and count.
VerdictWith(p, preLastDate, count) ==
    isProfessorAvailable([p EXCEPT !.preLastDate = preLastDate, !.count = count],
                         targetDate, requirements, procedures)

\* C25: the cooldown rule reads only lastDate and the target date.  A
\* professor is rejected by it exactly when lastDate is present and fewer
\* than minDaysBetweenParticipations days from the target date, whatever the
\* procedure list holds: a professor without lastDate is never rejected by
\* it.  The verdict and its reason are the same for every preLastDate and
\* count.
C25_CooldownReadsLastDate ==
    availability # Null =>
        LET a == availability[1]
            p == a.professor
        IN  /\ p.lastDate = Null => ~RejectedByCooldown(a)
            /\ RejectedByCooldown(a) <=>
                   /\ p.lastDate # Null
                   /\ daysBetween(p.lastDate[1], targetDate)
                          < requirements.minDaysBetweenParticipations
            /\ \A preLastDate \in EarlierDates, count \in Counts :
                   /\ VerdictWith(p, preLastDate, count).isAvailable = a.isAvailable
                   /\ VerdictWith(p, preLastDate, count).reason = a.reason
                   /\ VerdictWith(p, preLastDate, count).consecutiveCount
                          = a.consecutiveCount

\* A professor without lastDate, with a preLastDate and a participation in
\* the list the day before the target date, was found available under a
\* minimum of 30 days.
C25_Witness ==
    /\ availability # Null
    /\ availability[1].isAvailable
    /\ availability[1].professor.lastDate = Null
    /\ availability[1].professor.preLastDate = Some("2023-07-20")
    /\ availability[1].professor.count = 5
    /\ targetDate = "2023-07-21"
    /\ requirements.minDaysBetweenParticipations = 30
    /\ \E i \in 1..Len(procedures) :
           /\ procedures[i].m1 = Some(1)
           /\ procedures[i].date = "2023-07-20"

----------------------------------------------------------------------------
(* What the parsers do with each line *)

\* The lines of the parsed text, the header first.
ParsedLines == parsed[1].csvContent

\* The records, errors and warnings that come from the line in place k: a
\* record's id is the row number k - 1, a diagnostic starts with `Line k`.
DataFor(k) == SelectSeq(parsed[1].result.data, LAMBDA r : r.id = k - 1)

ErrorsFor(k) ==
    SelectSeq(parsed[1].result.errors, LAMBDA e : e[1] = "Line " /\ e[2] = ToString(k))

WarningsFor(k) ==
    SelectSeq(parsed[1].result.warnings, LAMBDA e : e[1] = "Line " /\ e[2] = ToString(k))

\* The cell is an optional date that is present and does not parse.
BadOptionalDate(cell) == ~IsEmptyCell(cell) /\ ~Parses(cell)

\* A professor line has a numeric or date field that does not parse, or a
\* title out of the enumeration.
ProfessorMalformed(columns) ==
    \/ isNaN(parseInt(columns[1]))
    \/ columns[2] \notin {"professor", "docent"}
    \/ isNaN(parseFloatTenths(columns[4]))
    \/ isNaN(parseFloat(columns[6]))
    \/ isNaN(parseInt(columns[7]))
    \/ BadOptionalDate(columns[8])
    \/ BadOptionalDate(columns[9])

\* A professor line has a number outside the plausible range: a rating
\* outside 4.6-4.9, a negative distance or a negative count.
ProfessorImplausible(columns) ==
    \/ (~isNaN(parseFloatTenths(columns[4]))
           /\ (parseFloatTenths(columns[4]) < 46 \/ parseFloatTenths(columns[4]) > 49))
    \/ (~isNaN(parseFloat(columns[6])) /\ parseFloat(columns[6]) < 0)
    \/ (~isNaN(parseInt(columns[7])) /\ parseInt(columns[7]) < 0)

\* A procedure line has a numeric or date field that does not parse, or a
\* procedure type out of the enumeration.
ProcedureMalformed(columns) ==
    \/ isNaN(parseInt(columns[1]))
    \/ ~Parses(columns[2])
    \/ columns[3] \notin {"doktor", "docent", "DN", "professor"}
    \/ \E j \in MemberCells(columns) :
           ~IsEmptyCell(columns[j]) /\ isNaN(parseInt(columns[j]))

\* The lines of the parsed text with all their cells: not blank, not short.
FullLines == {k \in 2..Len(ParsedLines) : Len(ParsedLines[k]) >= 9}

ProfessorDropped(columns) ==
    \/ Len(columns) < 9
    \/ isNaN(parseInt(columns[1]))
    \/ columns[2] \notin {"professor", "docent"}

\* The warnings a kept professor line produces: one for a rating that does
\* not parse or is outside 4.6-4.9, one for a distance that does not parse
\* or is negative, one for a count that does not parse or is negative.
ProfessorWarningCount(columns) ==
    (IF isNaN(parseFloatTenths(columns[4])) \/ parseFloatTenths(columns[4]) < 46
           \/ parseFloatTenths(columns[4]) > 49 THEN 1 ELSE 0)
    + (IF isNaN(parseFloat(columns[6])) \/ parseFloat(columns[6]) < 0 THEN 1 ELSE 0)
    + (IF isNaN(parseInt(columns[7])) \/ parseInt(columns[7]) < 0 THEN 1 ELSE 0)

\* A procedure line is dropped: it is short, its id is not a number or its
\* type is out of the enumeration.
ProcedureDropped(columns) ==
    \/ Len(columns) < 9
    \/ isNaN(parseInt(columns[1]))
    \/ columns[3] \notin {"doktor", "docent", "DN", "professor"}

----------------------------------------------------------------------------
(* useJuryData: loads that overlap, and clearData                          *)
(*                                                                         *)
(* A load function of the hook runs in two steps.  The first is the call   *)
(* up to its await: setLoading(true), setError(null) and the call of the   *)
(* loader, which for a load from text parses and stores before it returns  *)
(* its promise, and for a load from a file starts the read.  The second is *)
(* the rest: for a file the loader's part after the read, then in both     *)
(* cases setError, setProfessors or setProcedures, and in the finally      *)
(* block setLoading(false).  The loads from text resume in the order they  *)
(* were started, in the microtasks of the task that started them; a file   *)
(* read ends in a later task, in any order.  No load of the hook throws:   *)
(* the parsers do not throw and the loader catches a failed read.          *)

\* The most loads in flight.
MaxPending == 2

\* result.errors.join('; ')
RECURSIVE Join(_)
Join(errors) ==
    IF Len(errors) = 1 THEN errors[1]
    ELSE Join(SubSeq(errors, 1, Len(errors) - 1)) \o <<"; ">> \o errors[Len(errors)]

\* The hook's state after the part of a load function that follows the
\* await: setError when the result has errors, setProfessors or
\* setProcedures with result.data, setLoading(false).
HookAfterLoad(h, of, result) ==
    [h EXCEPT !.error = IF Len(result.errors) > 0 THEN Some(Join(result.errors)) ELSE @,
              !.professors = IF of = "professors" THEN result.data ELSE @,
              !.procedures = IF of = "procedures" THEN result.data ELSE @,
              !.loading = FALSE]

\* A load in flight: what it loads, from where, and what the loader
\* returned (Null while the file is being read).
Load(of, from, file, result) ==
    [of |-> of, from |-> from, file |-> file, result |-> result]

\* The list without its entry i.
Without(list, i) == SubSeq(list, 1, i - 1) \o SubSeq(list, i + 1, Len(list))

\* A load may start.
MayStart == Len(pending) < MaxPending /\ LogsShort

InitHook ==
    /\ EngineIdle
    /\ parsed = Null
    /\ loader = NewJuryDataLoader
    /\ professorsResult = Null
    /\ proceduresResult = Null
    /\ hook = InitialHookState
    /\ pending = << >>
    /\ events = Null

\* loadProfessors(csvContent) up to the await
StartLoadProfessors ==
    /\ MayStart
    /\ \E csvContent \in LoaderProfessorTexts :
           /\ loader' = LoaderAfterProfessorsFromCsv(loader, csvContent)
           /\ pending' = Append(pending,
                  Load("professors", "csv", Null, Some(ProfessorsFromCsvResult(csvContent))))
    /\ hook' = [hook EXCEPT !.loading = TRUE, !.error = Null]
    /\ UNCHANGED <<engine, parsed, professorsResult, proceduresResult, events>>

\* loadProcedures(csvContent) up to the await
StartLoadProcedures ==
    /\ MayStart
    /\ \E csvContent \in LoaderProcedureTexts :
           /\ loader' = LoaderAfterProceduresFromCsv(loader, csvContent)
           /\ pending' = Append(pending,
                  Load("procedures", "csv", Null, Some(ProceduresFromCsvResult(csvContent))))
    /\ hook' = [hook EXCEPT !.loading = TRUE, !.error = Null]
    /\ UNCHANGED <<engine, parsed, professorsResult, proceduresResult, events>>

\* loadProfessorsFromFile(file) up to the await: the read starts
StartLoadProfessorsFromFile ==
    /\ MayStart
    /\ \E file \in LoaderProfessorFiles :
           pending' = Append(pending, Load("professors", "file", file, Null))
    /\ hook' = [hook EXCEPT !.loading = TRUE, !.error = Null]
    /\ UNCHANGED <<engine, parsed, loader, professorsResult, proceduresResult, events>>

\* loadProceduresFromFile(file) up to the await: the read starts
StartLoadProceduresFromFile ==
    /\ MayStart
    /\ \E file \in LoaderProcedureFiles :
           pending' = Append(pending, Load("procedures", "file", file, Null))
    /\ hook' = [hook EXCEPT !.loading = TRUE, !.error = Null]
    /\ UNCHANGED <<engine, parsed, loader, professorsResult, proceduresResult, events>>

\* The rest of loadProfessors or loadProcedures: the oldest load from text
\* resumes.
FinishLoadFromCsv ==
    /\ \E i \in 1..Len(pending) :
           /\ pending[i].from = "csv"
           /\ \A j \in 1..(i - 1) : pending[j].from # "csv"
           /\ hook' = HookAfterLoad(hook, pending[i].of, pending[i].result[1])
           /\ pending' = Without(pending, i)
    /\ UNCHANGED <<engine, parsed, loader, professorsResult, proceduresResult, events>>

\* The read of a file ends: the loader parses and stores, or logs the
\* failure, and the rest of loadProfessorsFromFile or loadProceduresFromFile
\* runs.  No load from text is waiting to resume when a new task starts.
FinishLoadFromFile ==
    /\ \A j \in 1..Len(pending) : pending[j].from # "csv"
    /\ \E i \in 1..Len(pending) :
           LET file == pending[i].file
           IN  /\ loader' = IF pending[i].of = "professors"
                            THEN LoaderAfterProfessorsFromFile(loader, file)
                            ELSE LoaderAfterProceduresFromFile(loader, file)
               /\ hook' = HookAfterLoad(hook, pending[i].of,
                              IF pending[i].of = "professors"
                              THEN ProfessorsFromFileResult(file)
                              ELSE ProceduresFromFileResult(file))
               /\ pending' = Without(pending, i)
    /\ UNCHANGED <<engine, parsed, professorsResult, proceduresResult, events>>

\* clearData()
CallClearData ==
    /\ loader' = NewJuryDataLoader
    /\ hook' = [hook EXCEPT !.professors = << >>, !.procedures = << >>, !.error = Null]
    /\ UNCHANGED <<engine, parsed, professorsResult, proceduresResult, pending, events>>

NextHook ==
    \/ StartLoadProfessors
    \/ StartLoadProcedures
    \/ StartLoadProfessorsFromFile
    \/ StartLoadProceduresFromFile
    \/ FinishLoadFromCsv
    \/ FinishLoadFromFile
    \/ CallClearData

SpecHook == InitHook /\ [][NextHook]_vars

\* The hook's professors and procedures are the loader's.
HookMirrorsLoader ==
    /\ hook.professors = getProfessors(loader)
    /\ hook.procedures = getProcedures(loader)

\* A task has ended: no load from text is waiting to resume in a microtask.
BetweenTasks == \A j \in 1..Len(pending) : pending[j].from # "csv"

\* C27: after every completed load (from text or from a file, with or
\* without errors) and after every clear issued through useJuryData, the
\* hook's professors are the records the loader stores and the hook's
\* procedures are the procedures the loader stores.  Looked at when the task
\* of the load or clear has ended.
C27_HookMirrorsLoader ==
    [][((FinishLoadFromCsv \/ FinishLoadFromFile \/ CallClearData) /\ BetweenTasks')
           => HookMirrorsLoader']_vars

\* C28: under every interleaving of overlapping loads the loading flag is
\* true as long as a started load has not completed, and false once all
\* started loads have completed.  Looked at between tasks.
C28_LoadingWhilePending ==
    BetweenTasks =>
        /\ pending # << >> => hook.loading
        /\ pending = << >> => ~hook.loading
----------------------------------------------------------------------------
(* JuryCalendar on every selection of a pool of six and a few procedure    *)
(* lists                                                                   *)

\* Four professors and two associate professors; professor 3 took part ten
\* days before 2023-07-20.
CalendarPool ==
    <<Professor(1, "professor", "U1", 0, 0, Null),
      Professor(2, "professor", "U2", 50, 0, Null),
      Professor(3, "professor", "U2", 120, 0, Some("2023-07-10")),
      Professor(4, "docent", "U1", 0, 0, Null),
      Professor(5, "docent", "U2", 100, 0, Null),
      Professor(6, "professor", "U3", 80, 0, Null)>>

\* The members of the pool whose places are in S, in the order of the pool.
RECURSIVE Selection(_, _)
Selection(S, i) ==
    IF i > Len(CalendarPool) THEN << >>
    ELSE (IF i \in S THEN <<CalendarPool[i]>> ELSE << >>) \o Selection(S, i + 1)

CalendarProcedureLists ==
    {<< >>,
     <<Procedure(1, "2023-07-20", Some(1), Null, Null)>>,
     <<Procedure(1, "2023-09-15", Some(2), Some(4), Null),
       Procedure(2, "2023-07-20", Some(1), Null, Null)>>}

InitCalendar ==
    /\ \E S \in SUBSET (1..Len(CalendarPool)) : professors = Selection(S, 1)
    /\ procedures \in CalendarProcedureLists
    /\ targetDate = "2023-09-15"
    /\ requirements = CalendarRequirements
    /\ homeUniversity \in {"U1", "U3"}
    /\ availability = Null
    /\ consecutive = Null
    /\ composition = Null
    /\ NothingElseReturned

\* JuryCalendar renders: the events are computed.
RenderJuryCalendar ==
    /\ events' = Some(JuryCalendarEvents(professors, procedures, homeUniversity))
    /\ procedures' = ProceduresAfterEvents(professors, procedures, 1)
    /\ UNCHANGED <<professors, targetDate, requirements, homeUniversity,
                   availability, consecutive, composition, days, history, workload,
                   sortedList, available, parsed, loader, professorsResult,
                   proceduresResult, hook, pending>>

NextCalendar == RenderJuryCalendar

SpecCalendar == InitCalendar /\ [][NextCalendar]_vars

\* C29: for every procedure event the status is 'complete' only if all
\* required members (3 professors and 2 associate professors) are assigned,
\* 'partial' if some but not all are assigned without errors, and 'error'
\* exactly when the composition has errors; the displayed requiredMembers is
\* the required total, not the assigned total.
C29_EventStatus ==
    events # Null =>
        \A k \in 1..Len(events[1]) :
            LET r == events[1][k].resource
                c == r.composition
                required == CalendarRequirements.professorCount
                                + CalendarRequirements.associateProfessorCount
            IN  /\ r.status = "complete" =>
                       /\ Len(c.professors) = CalendarRequirements.professorCount
                       /\ Len(c.associateProfessors)
                              = CalendarRequirements.associateProfessorCount
                /\ (c.errors = << >> /\ Len(c.allMembers) > 0
                        /\ Len(c.allMembers) < required) => r.status = "partial"
                /\ r.status = "error" <=> c.errors # << >>
                /\ r.requiredMembers = required

----------------------------------------------------------------------------
(* No professor twice in a composition *)

\* The number of places of the list that hold the id.
TimesIn(list, id) == Cardinality({k \in 1..Len(list) : list[k].id = id})

\* C30: when the professor records of the input have pairwise distinct ids,
\* no professor appears more than once in allMembers and no professor
\* appears in both the professors list and the associateProfessors list.
C30_NobodyTwice ==
    (composition # Null /\ DistinctIds) =>
        LET c == composition[1]
        IN  /\ \A id \in Ids(c.allMembers) : TimesIn(c.allMembers, id) = 1
            /\ Ids(c.professors) \cap Ids(c.associateProfessors) = {}

\* A composition with a professor and an associate professor was made from
\* records with distinct ids.
C30_Witness ==
    /\ composition # Null
    /\ DistinctIds
    /\ Len(composition[1].professors) = 1
    /\ Len(composition[1].associateProfessors) = 1
    /\ Len(composition[1].allMembers) = 2

====
